---- MODULE Spec2Model ----
(***************************************************************************)
(* A model of tauri-plugin-android-fs: the picker operations of AndroidFs  *)
(* and their intent lock (src/api/android_fs.rs), and the write path with  *)
(* its staged fallback through a temporary file (write, write_via_kotlin,  *)
(* write_via_kotlin_in, copy_via_kotlin, PrivateStorage::resolve_path).    *)
(*                                                                         *)
(* The native peer (the Kotlin plugin reached through run_mobile_plugin),  *)
(* the local file system and the user are the environment: each of their   *)
(* answers is a nondeterministic choice in the action that asks for it.    *)
(***************************************************************************)
EXTENDS Integers, Sequences, FiniteSets, TLC

(***************************************************************************)
(* Bounds of the model.                                                    *)
(***************************************************************************)
\* Number of threads that call picker / dialog operations concurrently.
NumCallers == 2

Callers == 1..NumCallers

(***************************************************************************)
(* Picker operations: what each function of AndroidFs does around its      *)
(* dispatch to the peer.  `locks` is the line                              *)
(*     let _guard = self.intent_lock.lock();                               *)
(* `request` is the name handed to run_mobile_plugin and `field` the field *)
(* of the response the function returns (`.map(|v| v.uris)`, `|v| v.uri`,  *)
(* `|_| ()`).                                                              *)
(***************************************************************************)
show_open_file_dialog ==
    [locks |-> TRUE, request |-> "showOpenFileDialog", field |-> "uris"]

show_open_content_dialog ==
    [locks |-> TRUE, request |-> "showOpenContentDialog", field |-> "uris"]

show_open_visual_media_dialog ==
    [locks |-> TRUE, request |-> "showOpenVisualMediaDialog", field |-> "uris"]

show_manage_dir_dialog ==
    [locks |-> TRUE, request |-> "showManageDirDialog", field |-> "uri"]

\* show_save_file_dialog without its `let _guard = self.intent_lock.lock();`
show_save_file_dialog_NoLock ==
    [locks |-> FALSE, request |-> "showSaveFileDialog", field |-> "uri"]

show_save_file_dialog ==
    [locks |-> TRUE, request |-> "showSaveFileDialog", field |-> "uri"]

\* show_share_file_dialog taking the intent lock like the pickers.
show_share_file_dialog_Locked ==
    [locks |-> TRUE, request |-> "shareFile", field |-> "unit"]

show_share_file_dialog ==
    [locks |-> FALSE, request |-> "shareFile", field |-> "unit"]

show_view_file_dialog ==
    [locks |-> FALSE, request |-> "viewFile", field |-> "unit"]

OpenStyleOps ==
    {"show_open_file_dialog", "show_open_content_dialog",
     "show_open_visual_media_dialog"}

OptionStyleOps == {"show_manage_dir_dialog", "show_save_file_dialog"}

PickerOps == OpenStyleOps \cup OptionStyleOps

ShareViewOps == {"show_share_file_dialog", "show_view_file_dialog"}

DialogOps == PickerOps \cup ShareViewOps

Body(op) ==
    CASE op = "show_open_file_dialog" -> show_open_file_dialog
      [] op = "show_open_content_dialog" -> show_open_content_dialog
      [] op = "show_open_visual_media_dialog" -> show_open_visual_media_dialog
      [] op = "show_manage_dir_dialog" -> show_manage_dir_dialog
      [] op = "show_save_file_dialog" -> show_save_file_dialog
      [] op = "show_share_file_dialog" -> show_share_file_dialog
      [] op = "show_view_file_dialog" -> show_view_file_dialog

(***************************************************************************)
(* Values.                                                                 *)
(***************************************************************************)
\* struct FileUri { uri, document_top_tree_uri }
FileUri(uri, tree) == [uri |-> uri, document_top_tree_uri |-> tree]

None == [some |-> FALSE]

\* The value ()
Unit == [unit |-> TRUE]

Some(v) == [some |-> TRUE, value |-> v]

Ok(v) == [kind |-> "Ok", value |-> v]

Err(e) == [kind |-> "Err", error |-> e]

\* enum Error { NotAndroid, Path, Io, PluginInvoke }
PluginInvoke(msg) == [variant |-> "PluginInvoke", source |-> msg]

Io(msg) == [variant |-> "Io", source |-> msg]

NotAndroid == [variant |-> "NotAndroid"]

\* Error::Path(PathError), through #[from]
Path(e) == [variant |-> "Path", source |-> e]

\* impl From<PluginInvokeError> for Error
FromPluginInvokeError(value) == PluginInvoke(value)

\* A document the user can pick in a dialog.
PickedDoc ==
    FileUri(<<"content://", "com.android.providers.media.documents", "/document/1">>,
            None)

(***************************************************************************)
(* The peer's answer to a dialog request.  What the user did (`outcome`)   *)
(* decides it: a selection, a cancellation (an empty list / a null uri),   *)
(* or a failure of the peer (a rejected invoke).                           *)
(***************************************************************************)
Outcomes(field) ==
    IF field = "unit" THEN {"shown", "failed"}
    ELSE {"selected", "cancelled", "failed"}

PeerResponse(field, outcome) ==
    IF outcome = "failed" THEN Err("peer rejected the request")
    ELSE CASE field = "uris" ->
                Ok([uris |-> IF outcome = "selected" THEN <<PickedDoc>> ELSE <<>>])
           [] field = "uri" ->
                Ok([uri |-> IF outcome = "selected" THEN Some(PickedDoc) ELSE None])
           [] field = "unit" -> Ok([unit |-> Unit])

\* The mapping with the peer's error swallowed into the default value
\* (`.map(|v| v.uris).unwrap_or_default()`).
MapResponse_ErrAsDefault(field, resp) ==
    IF resp.kind = "Ok"
    THEN Ok(resp.value[field])
    ELSE Ok(CASE field = "uris" -> <<>> [] field = "uri" -> None [] field = "unit" -> Unit)

\* self.api.run_mobile_plugin::<Res>(..).map(|v| v.<field>).map_err(Into::into)
MapResponse(field, resp) ==
    IF resp.kind = "Ok"
    THEN Ok(resp.value[field])
    ELSE Err(FromPluginInvokeError(resp.error))

(***************************************************************************)
(* The write path.                                                         *)
(***************************************************************************)
\* Longest contents written.
MaxLen == 1

\* The write calls of a run, each made by its own thread: they may overlap
\* in any way, or follow one another.
Writers == {"w1", "w2"}

\* The contents a call writes: N bytes, the i-th byte being i, for N up to
\* MaxLen (so a reordered or shortened copy differs from the original).
AllContents == {[i \in 1..n |-> i] : n \in 0..MaxLen}

WriteFns == {"write", "write_via_kotlin", "write_via_kotlin_in"}

\* Identifiers are sequences of pieces of text; a piece stands for the
\* characters it holds, and two identifiers share a prefix when they share
\* leading pieces.
StartsWith(s, prefix) ==
    /\ Len(s) >= Len(prefix)
    /\ SubSeq(s, 1, Len(prefix)) = prefix

\* "content://com.google.android.apps.docs.storage"
GoogleDrivePrefix == <<"content://", "com.google.android.apps.docs.storage">>

GoogleDriveLegacyDoc ==
    FileUri(<<"content://", "com.google.android.apps.docs.storage", ".legacy",
              "/document/acc=1;doc=7">>, None)

ExternalStorageDoc ==
    FileUri(<<"content://", "com.android.externalstorage.documents",
              "/tree/primary%3Adocs/document/primary%3Adocs%2Fa.txt">>,
            Some(<<"content://", "com.android.externalstorage.documents",
                   "/tree/primary%3Adocs">>))

\* The allowlisted text occurs in it, but not at its start.
EmbeddedPrefixDoc ==
    FileUri(<<"content://", "com.example.provider", "/open?src=", "content://",
              "com.google.android.apps.docs.storage", "/document/acc=1;doc=2">>, None)

TargetUris == {GoogleDriveLegacyDoc, ExternalStorageDoc, EmbeddedPrefixDoc}

\* The check written with `contains` in place of `starts_with`.
need_write_via_kotlin_Contains(uri) ==
    \E i \in 1..Len(uri.uri) :
        StartsWith(SubSeq(uri.uri, i, Len(uri.uri)), GoogleDrivePrefix)

\* AndroidFs::need_write_via_kotlin
need_write_via_kotlin(uri) == StartsWith(uri.uri, GoogleDrivePrefix)

\* The mode string open_file hands to getFileDescriptor.
ModeString(mode) ==
    CASE mode = "Read" -> "r"
      [] mode = "Write" -> "w"
      [] mode = "WriteTruncate" -> "wt"
      [] mode = "WriteAppend" -> "wa"
      [] mode = "ReadWriteTruncate" -> "rwt"
      [] mode = "ReadWrite" -> "rw"

\* The mode AndroidFs::write opens its target with.
WriteOpenMode == "WriteTruncate"

\* format!("{id}"): the decimal digits of id.
DigitChars == <<"0", "1", "2", "3", "4", "5", "6", "7", "8", "9">>

RECURSIVE Decimal(_)
Decimal(n) ==
    IF n < 10 THEN <<DigitChars[n + 1]>>
    ELSE Decimal(n \div 10) \o <<DigitChars[(n % 10) + 1]>>

\* format!("{TMP_DIR_RELATIVE_PATH}/write_via_kotlin_in {id}")
WriteTmpRelativePath(id) ==
    <<"TMP_DIR_RELATIVE_PATH", "/", "write_via_kotlin_in ">> \o Decimal(id)

\* The peer's answer to getPrivateBaseDirAbsolutePaths.
PrivateBaseDirs ==
    [data |-> <<"/data/user/0/app/files">>, cache |-> <<"/data/user/0/app/cache">>]

\* Another answer to getPrivateBaseDirAbsolutePaths (those of another user
\* of the device).
OtherBaseDirs ==
    [data |-> <<"/data/user/10/app/files">>, cache |-> <<"/data/user/10/app/cache">>]

\* relative_path.trim_start_matches('/')
RECURSIVE TrimStartSeparators(_)
TrimStartSeparators(p) ==
    IF p # <<>> /\ Head(p) = "/" THEN TrimStartSeparators(Tail(p)) ELSE p

\* PathBuf::join of a base directory and a relative path.
Join(base, relative) == base \o <<"/">> \o relative

\* PrivateStorage::resolve_path_with, once the base directories are known.
resolve_path_with(paths, dir, relative_path) ==
    Join(IF dir = "Data" THEN paths.data ELSE paths.cache,
         TrimStartSeparators(relative_path))

\* Pieces of a path that are bytes no UTF-8 text holds.
InvalidUtf8Pieces == {"<0xFF>", "<0xFE>"}

\* Path::to_string_lossy: the path's text, with every byte sequence that is
\* not UTF-8 replaced by U+FFFD.
ToStringLossy(path) ==
    [i \in 1..Len(path) |-> IF path[i] \in InvalidUtf8Pieces THEN "U+FFFD" ELSE path[i]]

\* The conversion without the scheme (`uri: value.to_string_lossy().into()`).
FileUriFromPath_NoScheme(path) == FileUri(ToStringLossy(path), None)

\* impl From<&PathBuf> for FileUri
FileUriFromPath(path) == FileUri(<<"file://">> \o ToStringLossy(path), None)

\* The leading parts of some contents that a failed write_all can leave behind.
ProperPrefixes(c) == {SubSeq(c, 1, k) : k \in 0..(Len(c) - 1)}

VARIABLES
    pc,           \* pc[t]: where caller t is in its dialog call
    op,           \* op[t]: the operation caller t is in (or last returned from)
    intent_lock,  \* AndroidFs::intent_lock: 0 when free, else the caller holding the guard
    outcome,      \* outcome[t]: what the user / peer did with t's dialog
    result,       \* result[t]: the expression's value, then the value returned
    wpc,          \* wpc[w]: where writer w is in its write call
    call,         \* call[w]: the function w called and its arguments
    COUNTER,      \* the static AtomicUsize of write_via_kotlin_in
    PATHS,        \* the static OnceLock<Paths> of PrivateStorage::resolve_path
    tmp_file_path,\* tmp_file_path[w]: the local of write_via_kotlin_in
    wresult,      \* wresult[w]: the local `result`, then the value returned
    tmp_dir,      \* whether the temp directory exists
    files,        \* the files of the temp directory: path -> contents
    reqs,         \* reqs[w]: the peer requests w's current call has dispatched
    trace,        \* trace[w]: what the environment answered to w's current call
    target_os,    \* cfg(target_os): "android", or "other" for any other build
    fcall,        \* the last single-request operation called, with its arguments
                  \* and what the peer answered
    fres,         \* the value that operation returned
    freqs,        \* the peer requests that operation dispatched
    persisted,    \* the platform's persisted URI permission grants
    poisoned,     \* whether intent_lock is poisoned: a thread panicked holding its guard
    TMP_FILE_LOCK,\* the static Mutex of the trait's write_via_kotlin_in: "free", or
                  \* the writer holding the guard
    THUMBNAIL_COUNTER \* the static AtomicUsize (COUNTER) of get_thumbnail

pickerVars == <<pc, op, intent_lock, outcome, result>>

writeVars == <<wpc, call, COUNTER, PATHS, tmp_file_path, wresult,
               tmp_dir, files, reqs, trace>>

\* The write path's variables but for the writers' positions.
writeVarsButPc == <<call, COUNTER, PATHS, tmp_file_path, wresult,
                    tmp_dir, files, reqs, trace>>

facadeVars == <<target_os, fcall, fres, freqs, persisted>>

staticVars == <<poisoned, TMP_FILE_LOCK, THUMBNAIL_COUNTER>>

vars == <<pickerVars, writeVars, facadeVars, staticVars>>

NoResult == [kind |-> "None"]

(***************************************************************************)
(* on_android!: the body of an operation is compiled on Android only; on   *)
(* any other target the operation is `Err(crate::Error::NotAndroid)`.  An  *)
(* operation's body is given as the record of what it does: `returns` (the *)
(* value returned, NoResult when the call goes on to further steps) and,   *)
(* where it has them, `next` (the step the call goes on to), `reqs` (the   *)
(* peer requests dispatched) and `persisted` (the platform's grants after  *)
(* it).                                                                    *)
(***************************************************************************)
\* The macro with the body compiled on every target.
on_android_AlwaysRuns(action) == action

on_android(action) ==
    IF target_os = "android" THEN action ELSE [returns |-> Err(NotAndroid)]

EffNext(e) == IF "next" \in DOMAIN e THEN e.next ELSE "returned"

EffReqs(e) == IF "reqs" \in DOMAIN e THEN e.reqs ELSE <<>>

EffPersisted(e) == IF "persisted" \in DOMAIN e THEN e.persisted ELSE persisted

PickerInit ==
    /\ pc = [t \in Callers |-> "idle"]
    /\ op = [t \in Callers |-> "none"]
    /\ intent_lock = 0
    /\ poisoned = FALSE
    /\ outcome = [t \in Callers |-> "none"]
    /\ result = [t \in Callers |-> NoResult]

\* A caller enters one of the dialog functions.
CallDialog(t, o) ==
    LET e == on_android([returns |-> NoResult,
                         next |-> IF Body(o).locks THEN "lock" ELSE "dispatch"])
    IN
    /\ pc[t] \in {"idle", "returned"}
    /\ pc' = [pc EXCEPT ![t] = EffNext(e)]
    /\ op' = [op EXCEPT ![t] = o]
    /\ outcome' = [outcome EXCEPT ![t] = "none"]
    /\ result' = [result EXCEPT ![t] = e.returns]
    /\ UNCHANGED <<intent_lock, writeVars, facadeVars, staticVars>>

\* The lock's result unwrapped (`self.intent_lock.lock().unwrap()`): on a
\* poisoned mutex the caller panics, and the guard inside the error is
\* dropped at once.
AcquireIntentLock_Unwrap(t) ==
    /\ pc[t] = "lock"
    /\ intent_lock = 0
    /\ intent_lock' = IF poisoned THEN 0 ELSE t
    /\ pc' = [pc EXCEPT ![t] = IF poisoned THEN "panicked" ELSE "dispatch"]
    /\ UNCHANGED <<op, outcome, result, writeVars, facadeVars, staticVars>>

\* let _guard = self.intent_lock.lock();  (blocks while another guard lives).
\* _guard is the whole LockResult: on a poisoned mutex it is the Err that
\* holds the guard, so the caller holds the lock as with Ok.
AcquireIntentLock(t) ==
    /\ pc[t] = "lock"
    /\ intent_lock = 0
    /\ intent_lock' = t
    /\ pc' = [pc EXCEPT ![t] = "dispatch"]
    /\ UNCHANGED <<op, outcome, result, writeVars, facadeVars, staticVars>>

\* self.api.run_mobile_plugin(..): the dialog is shown, the peer answers, and
\* the answer is mapped to the function's result.
RunDialog(t, oc) ==
    /\ pc[t] = "dispatch"
    /\ oc \in Outcomes(Body(op[t]).field)
    /\ outcome' = [outcome EXCEPT ![t] = oc]
    /\ result' = [result EXCEPT ![t] =
                    MapResponse(Body(op[t]).field, PeerResponse(Body(op[t]).field, oc))]
    /\ pc' = [pc EXCEPT ![t] = "exit"]
    /\ UNCHANGED <<op, intent_lock, writeVars, facadeVars, staticVars>>

\* The guard leaked on the error path (as with std::mem::forget(_guard) before
\* an early return).
ReturnDialog_KeepsGuardOnErr(t) ==
    /\ pc[t] = "exit"
    /\ intent_lock' = IF intent_lock = t /\ result[t].kind = "Ok" THEN 0 ELSE intent_lock
    /\ pc' = [pc EXCEPT ![t] = "returned"]
    /\ UNCHANGED <<op, outcome, result, writeVars, facadeVars, staticVars>>

\* The end of the function's scope: _guard (if any) is dropped, then the
\* result reaches the caller.
ReturnDialog(t) ==
    /\ pc[t] = "exit"
    /\ intent_lock' = IF intent_lock = t THEN 0 ELSE intent_lock
    /\ pc' = [pc EXCEPT ![t] = "returned"]
    /\ UNCHANGED <<op, outcome, result, writeVars, facadeVars, staticVars>>

\* The thread panics inside run_mobile_plugin: the call unwinds out of the
\* dialog function.  A _guard it holds is dropped while the thread is
\* panicking, which frees the mutex and marks it poisoned.
DialogPanics(t) ==
    /\ pc[t] = "dispatch"
    /\ pc' = [pc EXCEPT ![t] = "panicked"]
    /\ intent_lock' = IF intent_lock = t THEN 0 ELSE intent_lock
    /\ poisoned' = (poisoned \/ intent_lock = t)
    /\ UNCHANGED <<op, outcome, result, writeVars, facadeVars, TMP_FILE_LOCK,
                   THUMBNAIL_COUNTER>>

PickerNext ==
    \/ \E t \in Callers, o \in DialogOps : CallDialog(t, o)
    \/ \E t \in Callers : AcquireIntentLock(t)
    \/ \E t \in Callers, oc \in {"selected", "cancelled", "failed", "shown"} : RunDialog(t, oc)
    \/ \E t \in Callers : ReturnDialog(t)

(***************************************************************************)
(* The write path: AndroidFs::write, write_via_kotlin, write_via_kotlin_in *)
(***************************************************************************)
NoPath == <<>>

WriteInit ==
    /\ wpc = [w \in Writers |-> "idle"]
    /\ call = [w \in Writers |-> [fn |-> "none"]]
    /\ COUNTER = 0
    /\ THUMBNAIL_COUNTER = 0
    /\ TMP_FILE_LOCK = "free"
    /\ PATHS = None
    /\ tmp_file_path = [w \in Writers |-> NoPath]
    /\ wresult = [w \in Writers |-> NoResult]
    /\ tmp_dir = FALSE
    /\ files = <<>>
    /\ reqs = [w \in Writers |-> <<>>]
    /\ trace = [w \in Writers |-> <<>>]

\* The value the caller-supplied writer returns on success: write_via_kotlin
\* passes |file| file.write_all(contents), which returns (); the writer given
\* to write_via_kotlin_in here returns the number of bytes it wrote.
WriterValue(fn, contents) ==
    IF fn = "write_via_kotlin_in" THEN [written |-> Len(contents)] ELSE Unit

\* The value a write function returns for the staged write's `result`:
\* write does `self.write_via_kotlin(uri, contents)?; return Ok(())`,
\* write_via_kotlin and write_via_kotlin_in return `result` itself.
StagedReturn(fn, res) ==
    IF fn = "write" /\ res.kind = "Ok" THEN Ok(Unit) ELSE res

\* The temp file with its contents set (File::create, write_all).
WithFile(fs, path, bytes) ==
    [p \in DOMAIN fs \cup {path} |-> IF p = path THEN bytes ELSE fs[p]]

\* The temp directory after std::fs::remove_file(path) succeeded.
WithoutFile(fs, path) == [p \in DOMAIN fs \ {path} |-> fs[p]]

\* A writer enters write, write_via_kotlin or write_via_kotlin_in; write
\* branches on `if self.need_write_via_kotlin(uri)?`.
CallWrite(w, fn, uri, contents) ==
    LET e == on_android([returns |-> NoResult,
                         next |-> IF fn = "write" /\ ~need_write_via_kotlin(uri)
                                  THEN "open" ELSE "fetch_add"])
    IN
    /\ wpc[w] = "idle"
    /\ call' = [call EXCEPT ![w] = [fn |-> fn, uri |-> uri, contents |-> contents]]
    /\ wpc' = [wpc EXCEPT ![w] = EffNext(e)]
    /\ wresult' = [wresult EXCEPT ![w] = e.returns]
    /\ UNCHANGED <<COUNTER, PATHS, tmp_file_path, tmp_dir, files, reqs,
                   trace, pickerVars, facadeVars,
                   staticVars>>

\* write: let mut file = self.open_file(uri, FileAccessMode::WriteTruncate)?;
OpenFile(w, ok) ==
    /\ wpc[w] = "open"
    /\ reqs' = [reqs EXCEPT ![w] = Append(@,
                 [name |-> "getFileDescriptor", uri |-> call[w].uri,
                  mode |-> ModeString(WriteOpenMode)])]
    /\ trace' = [trace EXCEPT ![w] = Append(@, <<"open_file", ok>>)]
    /\ IF ok
       THEN /\ wpc' = [wpc EXCEPT ![w] = "write_all"]
            /\ UNCHANGED wresult
       ELSE /\ wpc' = [wpc EXCEPT ![w] = "returned"]
            /\ wresult' = [wresult EXCEPT ![w] =
                             Err(FromPluginInvokeError("getFileDescriptor failed"))]
    /\ UNCHANGED <<call, COUNTER, PATHS, tmp_file_path, tmp_dir, files,
                   pickerVars, facadeVars,
                   staticVars>>

\* write: file.write_all(contents.as_ref())?; Ok(())
WriteAll(w, ok) ==
    /\ wpc[w] = "write_all"
    /\ trace' = [trace EXCEPT ![w] = Append(@, <<"write_all", ok>>)]
    /\ wresult' = [wresult EXCEPT ![w] =
                     IF ok THEN Ok(Unit) ELSE Err(Io("write_all failed"))]
    /\ wpc' = [wpc EXCEPT ![w] = "returned"]
    /\ UNCHANGED <<call, COUNTER, PATHS, tmp_file_path, tmp_dir, files,
                   reqs, pickerVars, facadeVars,
                   staticVars>>

\* The suffix read without the increment (`COUNTER.load(Ordering::Relaxed)`).
FetchAdd_NoIncrement(w) ==
    /\ wpc[w] = "fetch_add"
    /\ COUNTER' = COUNTER
    /\ tmp_file_path' = [tmp_file_path EXCEPT ![w] = WriteTmpRelativePath(COUNTER)]
    /\ wpc' = [wpc EXCEPT ![w] = "resolve"]
    /\ UNCHANGED <<call, PATHS, wresult, tmp_dir, files, reqs, trace,
                   pickerVars, facadeVars,
                   staticVars>>

\* write_via_kotlin_in: let id = COUNTER.fetch_add(1, Ordering::Relaxed);
FetchAdd(w) ==
    /\ wpc[w] = "fetch_add"
    /\ COUNTER' = COUNTER + 1
    /\ tmp_file_path' = [tmp_file_path EXCEPT ![w] = WriteTmpRelativePath(COUNTER)]
    /\ wpc' = [wpc EXCEPT ![w] = "resolve"]
    /\ UNCHANGED <<call, PATHS, wresult, tmp_dir, files, reqs, trace,
                   pickerVars, facadeVars,
                   staticVars>>

\* resolve_path_with(PrivateDir::Cache, ..)? with PATHS already set.
ResolveCached(w) ==
    /\ wpc[w] = "resolve"
    /\ PATHS.some
    /\ tmp_file_path' = [tmp_file_path EXCEPT ![w] =
                           resolve_path_with(PATHS.value, "Cache", @)]
    /\ wpc' = [wpc EXCEPT ![w] = "create_dir_all"]
    /\ UNCHANGED <<call, COUNTER, PATHS, wresult, tmp_dir, files, reqs,
                   trace, pickerVars, facadeVars,
                   staticVars>>

\* resolve_path_with(..)? with PATHS.get().is_none(): the base directories are
\* asked of the peer.
ResolveCheck(w) ==
    /\ wpc[w] = "resolve"
    /\ ~PATHS.some
    /\ wpc' = [wpc EXCEPT ![w] = "query_paths"]
    /\ UNCHANGED <<call, COUNTER, PATHS, tmp_file_path, wresult, tmp_dir,
                   files, reqs, trace, pickerVars, facadeVars,
                   staticVars>>

\* The cache as a cell that the last query overwrites (a Mutex<Option<Paths>>
\* assigned on every query).
ResolveQueryAnswered_Overwrites(w, ok, paths) ==
    /\ wpc[w] = "query_paths"
    /\ reqs' = [reqs EXCEPT ![w] = Append(@, [name |-> "getPrivateBaseDirAbsolutePaths"])]
    /\ trace' = [trace EXCEPT ![w] = Append(@, <<"resolve_path", ok>>)]
    /\ IF ok
       THEN /\ PATHS' = Some(paths)
            /\ tmp_file_path' = [tmp_file_path EXCEPT ![w] =
                                   resolve_path_with(PATHS'.value, "Cache", @)]
            /\ wpc' = [wpc EXCEPT ![w] = "create_dir_all"]
            /\ UNCHANGED wresult
       ELSE /\ wresult' = [wresult EXCEPT ![w] =
                             StagedReturn(call[w].fn,
                               Err(FromPluginInvokeError("getPrivateBaseDirAbsolutePaths failed")))]
            /\ wpc' = [wpc EXCEPT ![w] = "returned"]
            /\ UNCHANGED <<PATHS, tmp_file_path>>
    /\ UNCHANGED <<call, COUNTER, tmp_dir, files, pickerVars, facadeVars,
                   staticVars>>

\* run_mobile_plugin("getPrivateBaseDirAbsolutePaths")?; let _ = PATHS.set(paths);
\* PATHS.get().unwrap()  -- `paths` is the peer's answer; OnceLock::set on a
\* cell that is set already changes nothing.
ResolveQueryAnswered(w, ok, paths) ==
    /\ wpc[w] = "query_paths"
    /\ reqs' = [reqs EXCEPT ![w] = Append(@, [name |-> "getPrivateBaseDirAbsolutePaths"])]
    /\ trace' = [trace EXCEPT ![w] = Append(@, <<"resolve_path", ok>>)]
    /\ IF ok
       THEN /\ PATHS' = IF PATHS.some THEN PATHS ELSE Some(paths)
            /\ tmp_file_path' = [tmp_file_path EXCEPT ![w] =
                                   resolve_path_with(PATHS'.value, "Cache", @)]
            /\ wpc' = [wpc EXCEPT ![w] = "create_dir_all"]
            /\ UNCHANGED wresult
       ELSE /\ wresult' = [wresult EXCEPT ![w] =
                             StagedReturn(call[w].fn,
                               Err(FromPluginInvokeError("getPrivateBaseDirAbsolutePaths failed")))]
            /\ wpc' = [wpc EXCEPT ![w] = "returned"]
            /\ UNCHANGED <<PATHS, tmp_file_path>>
    /\ UNCHANGED <<call, COUNTER, tmp_dir, files, pickerVars, facadeVars,
                   staticVars>>

\* The query with the peer answering the application's base directories.
ResolveQuery(w, ok) == ResolveQueryAnswered(w, ok, PrivateBaseDirs)

\* if let Some(parent) = tmp_file_path.parent() { let _ = create_dir_all(parent); }
CreateDirAll(w, ok) ==
    /\ wpc[w] = "create_dir_all"
    /\ tmp_dir' = (tmp_dir \/ ok)
    /\ wpc' = [wpc EXCEPT ![w] = "create"]
    /\ UNCHANGED <<call, COUNTER, PATHS, tmp_file_path, wresult, files,
                   reqs, trace, pickerVars, facadeVars,
                   staticVars>>

\* let ref mut file = std::fs::File::create(&tmp_file_path)?;
CreateFile(w, ok) ==
    /\ wpc[w] = "create"
    /\ ok => tmp_dir
    /\ trace' = [trace EXCEPT ![w] = Append(@, <<"create", ok>>)]
    /\ IF ok
       THEN /\ files' = WithFile(files, tmp_file_path[w], <<>>)
            /\ wpc' = [wpc EXCEPT ![w] = "writer"]
            /\ UNCHANGED wresult
       ELSE /\ wresult' = [wresult EXCEPT ![w] =
                             StagedReturn(call[w].fn, Err(Io("File::create failed")))]
            /\ wpc' = [wpc EXCEPT ![w] = "returned"]
            /\ UNCHANGED files
    /\ UNCHANGED <<call, COUNTER, PATHS, tmp_file_path, tmp_dir, reqs,
                   pickerVars, facadeVars,
                   staticVars>>

\* contents_writer(file), then result.map_err(crate::Error::from)
ContentsWriter(w, ok, written) ==
    /\ wpc[w] = "writer"
    /\ written \in (IF ok THEN {call[w].contents} ELSE ProperPrefixes(call[w].contents) \cup {<<>>})
    /\ trace' = [trace EXCEPT ![w] = Append(@, <<"contents_writer", ok>>)]
    /\ files' = WithFile(files, tmp_file_path[w], written)
    /\ wresult' = [wresult EXCEPT ![w] =
                     IF ok THEN Ok(WriterValue(call[w].fn, call[w].contents))
                     ELSE Err(Io("contents_writer failed"))]
    /\ wpc' = [wpc EXCEPT ![w] = "copy"]
    /\ UNCHANGED <<call, COUNTER, PATHS, tmp_file_path, tmp_dir, reqs,
                   pickerVars, facadeVars,
                   staticVars>>

\* The request with source and destination exchanged.
CopyFileRequest_Swapped(src, dest, bytes) ==
    [name |-> "copyFile", src |-> dest, dest |-> src, bytes |-> bytes]

\* AndroidFs::copy_via_kotlin: the copyFile request.
CopyFileRequest(src, dest, bytes) ==
    [name |-> "copyFile", src |-> src, dest |-> dest, bytes |-> bytes]

\* The copy's failure discarded (`let _ = self.copy_via_kotlin(..)`).
CopyViaKotlin_IgnoresFailure(w, ok) ==
    /\ wpc[w] = "copy"
    /\ IF wresult[w].kind = "Ok"
       THEN /\ reqs' = [reqs EXCEPT ![w] = Append(@,
                          CopyFileRequest(FileUriFromPath(tmp_file_path[w]),
                                          call[w].uri, files[tmp_file_path[w]]))]
            /\ trace' = [trace EXCEPT ![w] = Append(@, <<"copy_via_kotlin", ok>>)]
            /\ UNCHANGED wresult
       ELSE /\ ok
            /\ UNCHANGED <<reqs, trace, wresult>>
    /\ wpc' = [wpc EXCEPT ![w] = "remove"]
    /\ UNCHANGED <<call, COUNTER, PATHS, tmp_file_path, tmp_dir, files,
                   pickerVars, facadeVars,
                   staticVars>>

\* The copy run whatever the local write returned (`result.and(copy)` with the
\* copy evaluated eagerly).
CopyViaKotlin_Unconditional(w, ok) ==
    /\ wpc[w] = "copy"
    /\ reqs' = [reqs EXCEPT ![w] = Append(@,
                 CopyFileRequest(FileUriFromPath(tmp_file_path[w]),
                                 call[w].uri, files[tmp_file_path[w]]))]
    /\ trace' = [trace EXCEPT ![w] = Append(@, <<"copy_via_kotlin", ok>>)]
    /\ wresult' = [wresult EXCEPT ![w] =
                     IF @.kind = "Err" \/ ok THEN @
                     ELSE Err(FromPluginInvokeError("copyFile failed"))]
    /\ wpc' = [wpc EXCEPT ![w] = "remove"]
    /\ UNCHANGED <<call, COUNTER, PATHS, tmp_file_path, tmp_dir, files,
                   pickerVars, facadeVars,
                   staticVars>>

\* .and_then(|t| self.copy_via_kotlin(&(&tmp_file_path).into(), uri).map(|_| t)):
\* on an Ok result the peer is asked to copy the temp file to the target (and
\* reads the temp file's bytes); on an Err result the closure is not run.
CopyViaKotlin(w, ok) ==
    /\ wpc[w] = "copy"
    /\ IF wresult[w].kind = "Ok"
       THEN /\ reqs' = [reqs EXCEPT ![w] = Append(@,
                          CopyFileRequest(FileUriFromPath(tmp_file_path[w]),
                                          call[w].uri, files[tmp_file_path[w]]))]
            /\ trace' = [trace EXCEPT ![w] = Append(@, <<"copy_via_kotlin", ok>>)]
            /\ wresult' = [wresult EXCEPT ![w] =
                             IF ok THEN @
                             ELSE Err(FromPluginInvokeError("copyFile failed"))]
       ELSE /\ ok
            /\ UNCHANGED <<reqs, trace, wresult>>
    /\ wpc' = [wpc EXCEPT ![w] = "remove"]
    /\ UNCHANGED <<call, COUNTER, PATHS, tmp_file_path, tmp_dir, files,
                   pickerVars, facadeVars,
                   staticVars>>

\* The removal placed after `result?`: an Err result returns before it.
RemoveFile_OnlyOnOk(w, ok) ==
    /\ wpc[w] = "remove"
    /\ IF wresult[w].kind = "Ok"
       THEN /\ trace' = [trace EXCEPT ![w] = Append(@, <<"remove_file", ok>>)]
            /\ files' = IF ok THEN WithoutFile(files, tmp_file_path[w]) ELSE files
       ELSE /\ ok
            /\ UNCHANGED <<trace, files>>
    /\ wresult' = [wresult EXCEPT ![w] = StagedReturn(call[w].fn, @)]
    /\ wpc' = [wpc EXCEPT ![w] = "returned"]
    /\ UNCHANGED <<call, COUNTER, PATHS, tmp_file_path, tmp_dir, reqs,
                   pickerVars, facadeVars,
                   staticVars>>

\* The removal's failure propagated (`std::fs::remove_file(&tmp_file_path)?`).
RemoveFile_MasksResult(w, ok) ==
    /\ wpc[w] = "remove"
    /\ trace' = [trace EXCEPT ![w] = Append(@, <<"remove_file", ok>>)]
    /\ files' = IF ok THEN WithoutFile(files, tmp_file_path[w]) ELSE files
    /\ wresult' = [wresult EXCEPT ![w] =
                     IF ok THEN StagedReturn(call[w].fn, @)
                     ELSE Err(Io("remove_file failed"))]
    /\ wpc' = [wpc EXCEPT ![w] = "returned"]
    /\ UNCHANGED <<call, COUNTER, PATHS, tmp_file_path, tmp_dir, reqs,
                   pickerVars, facadeVars,
                   staticVars>>

\* let _ = std::fs::remove_file(&tmp_file_path); result
RemoveFile(w, ok) ==
    /\ wpc[w] = "remove"
    /\ trace' = [trace EXCEPT ![w] = Append(@, <<"remove_file", ok>>)]
    /\ files' = IF ok THEN WithoutFile(files, tmp_file_path[w]) ELSE files
    /\ wresult' = [wresult EXCEPT ![w] = StagedReturn(call[w].fn, @)]
    /\ wpc' = [wpc EXCEPT ![w] = "returned"]
    /\ UNCHANGED <<call, COUNTER, PATHS, tmp_file_path, tmp_dir, reqs,
                   pickerVars, facadeVars,
                   staticVars>>

WriteNext ==
    \/ \E w \in Writers, fn \in WriteFns, uri \in TargetUris, c \in AllContents :
          CallWrite(w, fn, uri, c)
    \/ \E w \in Writers, ok \in BOOLEAN : OpenFile(w, ok)
    \/ \E w \in Writers, ok \in BOOLEAN : WriteAll(w, ok)
    \/ \E w \in Writers : FetchAdd(w)
    \/ \E w \in Writers : ResolveCached(w)
    \/ \E w \in Writers : ResolveCheck(w)
    \/ \E w \in Writers, ok \in BOOLEAN : ResolveQuery(w, ok)
    \/ \E w \in Writers, ok \in BOOLEAN : CreateDirAll(w, ok)
    \/ \E w \in Writers, ok \in BOOLEAN : CreateFile(w, ok)
    \/ \E w \in Writers, ok \in BOOLEAN, b \in AllContents : ContentsWriter(w, ok, b)
    \/ \E w \in Writers, ok \in BOOLEAN : CopyViaKotlin(w, ok)
    \/ \E w \in Writers, ok \in BOOLEAN : RemoveFile(w, ok)

(***************************************************************************)
(* Abnormal exits of the write path: a panic of the caller-supplied writer *)
(* and the end of the process followed by a new start of the plugin.       *)
(***************************************************************************)
\* contents_writer(file) panics: the call unwinds out of write_via_kotlin_in.
\* The locals `file` and `tmp_file_path` are dropped (the file is closed with
\* whatever the writer had written); the statements after the call, the copy
\* and std::fs::remove_file, are not run.
ContentsWriterPanics(w, written) ==
    /\ wpc[w] = "writer"
    /\ written \in ProperPrefixes(call[w].contents) \cup {call[w].contents}
    /\ files' = WithFile(files, tmp_file_path[w], written)
    /\ wpc' = [wpc EXCEPT ![w] = "panicked"]
    /\ UNCHANGED <<call, COUNTER, PATHS, tmp_file_path, wresult, tmp_dir,
                   reqs, trace, pickerVars, facadeVars,
                   staticVars>>

\* The process ends (wherever its threads are) and a new one starts: the
\* plugin's setup constructs the API object with AndroidFs::new, which
\* registers the peer and creates the intent lock and touches no file.  The
\* statics start over; the private cache directory is what the last process
\* left.
Restart ==
    /\ pc' = [t \in Callers |-> "idle"]
    /\ op' = [t \in Callers |-> "none"]
    /\ intent_lock' = 0
    /\ outcome' = [t \in Callers |-> "none"]
    /\ result' = [t \in Callers |-> NoResult]
    /\ wpc' = [w \in Writers |-> "idle"]
    /\ call' = [w \in Writers |-> [fn |-> "none"]]
    /\ COUNTER' = 0
    /\ PATHS' = None
    /\ tmp_file_path' = [w \in Writers |-> NoPath]
    /\ wresult' = [w \in Writers |-> NoResult]
    /\ reqs' = [w \in Writers |-> <<>>]
    /\ trace' = [w \in Writers |-> <<>>]
    /\ fcall' = [op |-> "none"]
    /\ fres' = NoResult
    /\ freqs' = <<>>
    /\ poisoned' = FALSE
    /\ TMP_FILE_LOCK' = "free"
    /\ THUMBNAIL_COUNTER' = 0
    /\ UNCHANGED <<tmp_dir, files, target_os, persisted>>

\* Staged writes with a caller-supplied writer to one target, with panics and
\* restarts.
AbnormalExitNext ==
    \/ \E w \in Writers, c \in AllContents :
          CallWrite(w, "write_via_kotlin_in", GoogleDriveLegacyDoc, c)
    \/ \E w \in Writers : FetchAdd(w)
    \/ \E w \in Writers : ResolveCached(w)
    \/ \E w \in Writers : ResolveCheck(w)
    \/ \E w \in Writers, ok \in BOOLEAN : ResolveQuery(w, ok)
    \/ \E w \in Writers, ok \in BOOLEAN : CreateDirAll(w, ok)
    \/ \E w \in Writers, ok \in BOOLEAN : CreateFile(w, ok)
    \/ \E w \in Writers, ok \in BOOLEAN, b \in AllContents : ContentsWriter(w, ok, b)
    \/ \E w \in Writers, b \in AllContents : ContentsWriterPanics(w, b)
    \/ \E w \in Writers, ok \in BOOLEAN : CopyViaKotlin(w, ok)
    \/ \E w \in Writers, ok \in BOOLEAN : RemoveFile(w, ok)
    \/ Restart

(***************************************************************************)
(* The staged write of the trait AndroidFs (lib.rs): one temp file of a    *)
(* fixed name, used under the static TMP_FILE_LOCK.  Its statements from   *)
(* contents_writer(file) to the copy are those of the struct's function,   *)
(* so ContentsWriter and CopyViaKotlin are its steps too.  A call of the   *)
(* trait's function is marked by the field `impl` of its call record.      *)
(***************************************************************************)
\* "tauri-plugin-android-fs-tempfile-write-via-kotlin"
TmpFileRelativePath == <<"tauri-plugin-android-fs-tempfile-write-via-kotlin">>

\* A writer enters the trait's write_via_kotlin_in.
TraitCallWrite(w, uri, contents) ==
    /\ wpc[w] = "idle"
    /\ call' = [call EXCEPT ![w] = [fn |-> "write_via_kotlin_in", uri |-> uri,
                                     contents |-> contents, impl |-> "trait"]]
    /\ wpc' = [wpc EXCEPT ![w] = "lock"]
    /\ UNCHANGED <<COUNTER, PATHS, tmp_file_path, wresult, tmp_dir, files, reqs,
                   trace, pickerVars, facadeVars, staticVars>>

\* let _guard = TMP_FILE_LOCK.lock();  (blocks while another guard lives; the
\* Result is kept whole, so a poisoned mutex gives the guard all the same)
LockTmpFile(w) ==
    /\ wpc[w] = "lock"
    /\ TMP_FILE_LOCK = "free"
    /\ TMP_FILE_LOCK' = w
    /\ wpc' = [wpc EXCEPT ![w] = "resolve_tmp_file"]
    /\ UNCHANGED <<writeVarsButPc, pickerVars, facadeVars, poisoned, THUMBNAIL_COUNTER>>

\* .resolve_path_with(PrivateDir::Cache, "tauri-plugin-..-write-via-kotlin")?
\* The base directories are asked of the peer when PATHS is not set; on
\* failure the function returns and _guard is dropped.
TraitResolve(w, ok) ==
    /\ wpc[w] = "resolve_tmp_file"
    /\ IF PATHS.some
       THEN /\ ok
            /\ UNCHANGED <<reqs, PATHS>>
       ELSE /\ reqs' = [reqs EXCEPT ![w] = Append(@, [name |-> "getPrivateBaseDirAbsolutePaths"])]
            /\ PATHS' = IF ok THEN Some(PrivateBaseDirs) ELSE PATHS
    /\ IF ok
       THEN /\ tmp_file_path' = [tmp_file_path EXCEPT ![w] =
                                   resolve_path_with(PATHS'.value, "Cache", TmpFileRelativePath)]
            /\ wpc' = [wpc EXCEPT ![w] = "create_tmp_file"]
            /\ UNCHANGED <<wresult, TMP_FILE_LOCK>>
       ELSE /\ wresult' = [wresult EXCEPT ![w] =
                             Err(FromPluginInvokeError("getPrivateBaseDirAbsolutePaths failed"))]
            /\ wpc' = [wpc EXCEPT ![w] = "returned"]
            /\ TMP_FILE_LOCK' = "free"
            /\ UNCHANGED tmp_file_path
    /\ UNCHANGED <<call, COUNTER, tmp_dir, files, trace, pickerVars, facadeVars,
                   poisoned, THUMBNAIL_COUNTER>>

\* The early return of File::create's failure with the guard left alive (as
\* with std::mem::forget(_guard) before the return).
TraitCreateFile_KeepsGuard(w, ok) ==
    /\ wpc[w] = "create_tmp_file"
    /\ trace' = [trace EXCEPT ![w] = Append(@, <<"create", ok>>)]
    /\ IF ok
       THEN /\ files' = WithFile(files, tmp_file_path[w], <<>>)
            /\ wpc' = [wpc EXCEPT ![w] = "writer"]
            /\ UNCHANGED wresult
       ELSE /\ wresult' = [wresult EXCEPT ![w] = Err(Io("File::create failed"))]
            /\ wpc' = [wpc EXCEPT ![w] = "returned"]
            /\ UNCHANGED files
    /\ UNCHANGED <<call, COUNTER, PATHS, tmp_file_path, tmp_dir, reqs,
                   pickerVars, facadeVars, staticVars>>

\* let ref mut file = std::fs::File::create(&tmp_file_path)?;  The file is
\* created, or emptied when it exists; on failure the function returns and
\* _guard is dropped.
TraitCreateFile(w, ok) ==
    /\ wpc[w] = "create_tmp_file"
    /\ trace' = [trace EXCEPT ![w] = Append(@, <<"create", ok>>)]
    /\ IF ok
       THEN /\ files' = WithFile(files, tmp_file_path[w], <<>>)
            /\ wpc' = [wpc EXCEPT ![w] = "writer"]
            /\ UNCHANGED <<wresult, TMP_FILE_LOCK>>
       ELSE /\ wresult' = [wresult EXCEPT ![w] = Err(Io("File::create failed"))]
            /\ wpc' = [wpc EXCEPT ![w] = "returned"]
            /\ TMP_FILE_LOCK' = "free"
            /\ UNCHANGED files
    /\ UNCHANGED <<call, COUNTER, PATHS, tmp_file_path, tmp_dir, reqs,
                   pickerVars, facadeVars, poisoned, THUMBNAIL_COUNTER>>

\* contents_writer(file) panics: the call unwinds, _guard is dropped (the
\* mutex is poisoned, which LockTmpFile does not look at) and the temp file
\* stays.
TraitWriterPanics(w, written) ==
    /\ wpc[w] = "writer"
    /\ written \in ProperPrefixes(call[w].contents) \cup {call[w].contents}
    /\ files' = WithFile(files, tmp_file_path[w], written)
    /\ wpc' = [wpc EXCEPT ![w] = "panicked"]
    /\ TMP_FILE_LOCK' = "free"
    /\ UNCHANGED <<call, COUNTER, PATHS, tmp_file_path, wresult, tmp_dir,
                   reqs, trace, pickerVars, facadeVars, poisoned, THUMBNAIL_COUNTER>>

\* let _ = std::fs::remove_file(&tmp_file_path); result  -- and the end of
\* the function's scope, where _guard is dropped.
TraitRemoveFile(w, ok) ==
    /\ wpc[w] = "remove"
    /\ trace' = [trace EXCEPT ![w] = Append(@, <<"remove_file", ok>>)]
    /\ files' = IF ok THEN WithoutFile(files, tmp_file_path[w]) ELSE files
    /\ wpc' = [wpc EXCEPT ![w] = "returned"]
    /\ TMP_FILE_LOCK' = "free"
    /\ UNCHANGED <<call, COUNTER, PATHS, tmp_file_path, wresult, tmp_dir, reqs,
                   pickerVars, facadeVars, poisoned, THUMBNAIL_COUNTER>>

\* The caller takes the value returned; the writer is free for another call.
TakeResult(w) ==
    /\ wpc[w] = "returned"
    /\ wpc' = [wpc EXCEPT ![w] = "idle"]
    /\ call' = [call EXCEPT ![w] = [fn |-> "none"]]
    /\ tmp_file_path' = [tmp_file_path EXCEPT ![w] = NoPath]
    /\ wresult' = [wresult EXCEPT ![w] = NoResult]
    /\ reqs' = [reqs EXCEPT ![w] = <<>>]
    /\ trace' = [trace EXCEPT ![w] = <<>>]
    /\ UNCHANGED <<COUNTER, PATHS, tmp_dir, files, pickerVars, facadeVars, staticVars>>

\* Staged writes of the trait's function to one target.
TraitNext ==
    \/ \E w \in Writers, c \in AllContents : TraitCallWrite(w, GoogleDriveLegacyDoc, c)
    \/ \E w \in Writers : LockTmpFile(w)
    \/ \E w \in Writers, ok \in BOOLEAN : TraitResolve(w, ok)
    \/ \E w \in Writers, ok \in BOOLEAN : TraitCreateFile(w, ok)
    \/ \E w \in Writers, ok \in BOOLEAN, b \in AllContents : ContentsWriter(w, ok, b)
    \/ \E w \in Writers, b \in AllContents : TraitWriterPanics(w, b)
    \/ \E w \in Writers, ok \in BOOLEAN : CopyViaKotlin(w, ok)
    \/ \E w \in Writers, ok \in BOOLEAN : TraitRemoveFile(w, ok)
    \/ \E w \in Writers : TakeResult(w)

(***************************************************************************)
(* get_thumbnail: a temp file of its own, named by its own counter, that   *)
(* the peer writes the thumbnail to.  Its path is resolved and its         *)
(* directory and file are created by the statements of the staged write    *)
(* (ResolveCached, ResolveCheck, ResolveQuery, CreateDirAll, CreateFile),  *)
(* and removed by RemoveFile's; position "writer" is the one after         *)
(* File::create.                                                           *)
(***************************************************************************)
\* The temp file named with the staged write's tag.
GetThumbnailTmpRelativePath_WriteTag(id) ==
    <<"TMP_DIR_RELATIVE_PATH", "/", "write_via_kotlin_in ">> \o Decimal(id)

\* format!("{TMP_DIR_RELATIVE_PATH}/get_thumbnail {id}")
GetThumbnailTmpRelativePath(id) ==
    <<"TMP_DIR_RELATIVE_PATH", "/", "get_thumbnail ">> \o Decimal(id)

\* The bytes of the thumbnail the peer makes.
ThumbnailBytes == <<9>>

\* A caller enters get_thumbnail.
CallGetThumbnail(w, uri) ==
    LET e == on_android([returns |-> NoResult, next |-> "thumbnail_fetch_add"])
    IN
    /\ wpc[w] = "idle"
    /\ call' = [call EXCEPT ![w] = [fn |-> "get_thumbnail", uri |-> uri]]
    /\ wpc' = [wpc EXCEPT ![w] = EffNext(e)]
    /\ wresult' = [wresult EXCEPT ![w] = e.returns]
    /\ UNCHANGED <<COUNTER, PATHS, tmp_file_path, tmp_dir, files, reqs,
                   trace, pickerVars, facadeVars, staticVars>>

\* get_thumbnail: let id = COUNTER.fetch_add(1, Ordering::Relaxed);
GetThumbnailFetchAdd(w) ==
    /\ wpc[w] = "thumbnail_fetch_add"
    /\ THUMBNAIL_COUNTER' = THUMBNAIL_COUNTER + 1
    /\ tmp_file_path' = [tmp_file_path EXCEPT ![w] =
                           GetThumbnailTmpRelativePath(THUMBNAIL_COUNTER)]
    /\ wpc' = [wpc EXCEPT ![w] = "resolve"]
    /\ UNCHANGED <<call, COUNTER, PATHS, wresult, tmp_dir, files, reqs, trace,
                   pickerVars, facadeVars, poisoned, TMP_FILE_LOCK>>

\* let result = self.get_thumbnail_to(uri, &(&tmp_file_path).into(), ..)
\*     .and_then(|ok| if ok { std::fs::read(&tmp_file_path).map(Some) } else { Ok(None) });
\* `answer` is the peer's: an error, or whether it wrote the thumbnail to the
\* file it was given; `read_ok` is whether std::fs::read succeeds.
GetThumbnailTo(w, answer, read_ok) ==
    /\ wpc[w] = "writer"
    /\ call[w].fn = "get_thumbnail"
    /\ reqs' = [reqs EXCEPT ![w] = Append(@,
                 [name |-> "getThumbnail", src |-> call[w].uri,
                  dest |-> FileUriFromPath(tmp_file_path[w])])]
    /\ trace' = [trace EXCEPT ![w] = Append(@, <<"get_thumbnail_to", answer.kind = "Ok">>)]
    /\ files' = IF answer.kind = "Ok" /\ answer.value.value
                THEN WithFile(files, tmp_file_path[w], ThumbnailBytes) ELSE files
    /\ wresult' = [wresult EXCEPT ![w] =
                     IF answer.kind = "Err" THEN Err(FromPluginInvokeError(answer.error))
                     ELSE IF ~answer.value.value THEN Ok(None)
                     ELSE IF read_ok /\ tmp_file_path[w] \in DOMAIN files'
                          THEN Ok(Some(files'[tmp_file_path[w]]))
                          ELSE Err(Io("read failed"))]
    /\ wpc' = [wpc EXCEPT ![w] = "remove"]
    /\ UNCHANGED <<call, COUNTER, PATHS, tmp_file_path, tmp_dir,
                   pickerVars, facadeVars, staticVars>>

\* Staged writes and get_thumbnail calls, each caller making one call.
ThumbnailNext ==
    \/ \E w \in Writers : CallWrite(w, "write_via_kotlin", GoogleDriveLegacyDoc, <<1>>)
    \/ \E w \in Writers : CallGetThumbnail(w, PickedDoc)
    \/ \E w \in Writers : FetchAdd(w)
    \/ \E w \in Writers : GetThumbnailFetchAdd(w)
    \/ \E w \in Writers : ResolveCached(w)
    \/ \E w \in Writers : ResolveCheck(w)
    \/ \E w \in Writers, ok \in BOOLEAN : ResolveQuery(w, ok)
    \/ \E w \in Writers, ok \in BOOLEAN : CreateDirAll(w, ok)
    \/ \E w \in Writers, ok \in BOOLEAN : CreateFile(w, ok)
    \/ \E w \in Writers, ok \in BOOLEAN, b \in AllContents :
          call[w].fn # "get_thumbnail" /\ ContentsWriter(w, ok, b)
    \/ \E w \in Writers, read_ok \in BOOLEAN :
          \E answer \in {Err("getThumbnail failed"), Ok([value |-> TRUE]), Ok([value |-> FALSE])} :
              GetThumbnailTo(w, answer, read_ok)
    \/ \E w \in Writers, ok \in BOOLEAN : CopyViaKotlin(w, ok)
    \/ \E w \in Writers, ok \in BOOLEAN : RemoveFile(w, ok)

(***************************************************************************)
(* Operations that are one request to the peer and a mapping of its        *)
(* answer.  The peer's answer is the environment's choice, recorded in     *)
(* fcall with the call's arguments.                                        *)
(***************************************************************************)
\* An operation that takes the intent lock for its body, as the pickers do:
\* it waits while a picker holds the lock.
Apply_UnderIntentLock(c, e) ==
    /\ intent_lock = 0
    /\ fcall' = c
    /\ fres' = e.returns
    /\ freqs' = EffReqs(e)
    /\ persisted' = EffPersisted(e)
    /\ UNCHANGED <<target_os, pickerVars, writeVars, staticVars>>

\* An operation is called and returns: what its body did becomes the state.
Apply(c, e) ==
    /\ fcall' = c
    /\ fres' = e.returns
    /\ freqs' = EffReqs(e)
    /\ persisted' = EffPersisted(e)
    /\ UNCHANGED <<target_os, pickerVars, writeVars, staticVars>>

\* Most rows in a directory listing the peer returns.
MaxRows == 2

TreeDocs == <<"content://", "com.android.externalstorage.documents", "/tree/primary%3Adocs">>

\* A directory the user has chosen, and a child the peer names in it.
DocsDir == FileUri(TreeDocs \o <<"/document/primary%3Adocs">>, Some(TreeDocs))

ChildUri(name) ==
    FileUri(TreeDocs \o <<"/document/primary%3Adocs%2F", name>>, Some(TreeDocs))

\* struct Obj { name, uri, last_modified: i64, byte_size: i64, mime_type: Option<String> }
Obj(name, last_modified, byte_size, mime_type) ==
    [name |-> name, uri |-> ChildUri(name), last_modified |-> last_modified,
     byte_size |-> byte_size, mime_type |-> mime_type]

\* Rows the peer can report: a directory, files of a known and of the
\* generic type, and a file whose type is the empty string and whose size
\* the provider reports as -1.
RowSet ==
    {Obj("sub", 5, 0, None),
     Obj("a.txt", 5, 7, Some("text/plain")),
     Obj("blob", -1, 7, Some("application/octet-stream")),
     Obj("odd", 0, -1, Some(""))}

ListingRows == UNION {[1..n -> RowSet] : n \in 0..MaxRows}

\* struct Res { entries: Vec<Obj> }, or the invoke's error.
ReadDirAnswers ==
    {Err("readDir failed")} \cup {Ok([entries |-> rows]) : rows \in ListingRows}

\* `v as u64` of an i64: v itself when v >= 0, and 2^64 + v when v < 0
\* (`wrapped`).
AsU64(v) == [wrapped |-> v < 0, value |-> v]

\* std::time::UNIX_EPOCH + std::time::Duration::from_millis(millis)
SinceEpoch(millis) == [unix_epoch_plus_millis |-> millis]

\* The match with the generic type taken for "no type".
EntryOfRow_OctetStreamIsDir(v) ==
    IF v.mime_type.some /\ v.mime_type.value # "application/octet-stream"
    THEN [variant |-> "File",
          name |-> v.name,
          last_modified |-> SinceEpoch(AsU64(v.last_modified)),
          len |-> AsU64(v.byte_size),
          mime_type |-> v.mime_type.value,
          uri |-> v.uri]
    ELSE [variant |-> "Dir",
          name |-> v.name,
          last_modified |-> SinceEpoch(AsU64(v.last_modified)),
          uri |-> v.uri]

\* read_dir's closure: match v.mime_type { Some(mime_type) => Entry::File {..},
\* None => Entry::Dir {..} }
EntryOfRow(v) ==
    IF v.mime_type.some
    THEN [variant |-> "File",
          name |-> v.name,
          last_modified |-> SinceEpoch(AsU64(v.last_modified)),
          len |-> AsU64(v.byte_size),
          mime_type |-> v.mime_type.value,
          uri |-> v.uri]
    ELSE [variant |-> "Dir",
          name |-> v.name,
          last_modified |-> SinceEpoch(AsU64(v.last_modified)),
          uri |-> v.uri]

\* AndroidFs::read_dir
read_dir(uri, answer) ==
    on_android(
        [reqs |-> <<[name |-> "readDir", uri |-> uri]>>,
         returns |->
            IF answer.kind = "Ok"
            THEN Ok([i \in 1..Len(answer.value.entries) |->
                        EntryOfRow(answer.value.entries[i])])
            ELSE Err(FromPluginInvokeError(answer.error))])

ReadDir(uri, answer) ==
    Apply([op |-> "read_dir", uri |-> uri, answer |-> answer], read_dir(uri, answer))

(***************************************************************************)
(* Relative paths and the operations that create a file.  A relative path  *)
(* is a sequence of pieces: the separator "/" and names holding no         *)
(* separator.                                                              *)
(***************************************************************************)
\* Most pieces in a relative path.
MaxPathLen == 4

PathPieces == {"/", "a", "b.txt"}

RelativePaths == UNION {[1..n -> PathPieces] : n \in 0..MaxPathLen}

\* relative_path.ends_with('/')
EndsWithSeparator(p) == p # <<>> /\ p[Len(p)] = "/"

\* relative_path.contains('/')
ContainsSeparator(p) == \E i \in 1..Len(p) : p[i] = "/"

\* relative_path.chars().collect::<Vec<_>>().windows(2)
\*     .any(|w| w[0] == '/' && w[1] == '/')
HasConsecutiveSeparators(p) ==
    \E i \in 1..(Len(p) - 1) : p[i] = "/" /\ p[i + 1] = "/"

\* The split that leaves the last separator at the head of the file name.
RSplitN2_KeepsSeparator(p) ==
    IF ContainsSeparator(p)
    THEN LET k == CHOOSE i \in 1..Len(p) :
                      p[i] = "/" /\ \A j \in (i + 1)..Len(p) : p[j] # "/"
         IN  <<SubSeq(p, k, Len(p)), SubSeq(p, 1, k - 1)>>
    ELSE <<p>>

\* rsplitn(2, '/'): the text after the last separator, then the text before it.
RSplitN2(p) ==
    IF ContainsSeparator(p)
    THEN LET k == CHOOSE i \in 1..Len(p) :
                      p[i] = "/" /\ \A j \in (i + 1)..Len(p) : p[j] # "/"
         IN  <<SubSeq(p, k + 1, Len(p)), SubSeq(p, 1, k - 1)>>
    ELSE <<p>>

\* The validation without its first line: leading separators are not stripped.
split_relative_path_NoTrim(relative_path) ==
    IF relative_path = <<>> THEN Err(Path("Empty"))
    ELSE IF EndsWithSeparator(relative_path) THEN Err(Path("DoesNotContainFileName"))
    ELSE IF ~ContainsSeparator(relative_path) THEN Err(Path("DoesNotContainSubDir"))
    ELSE IF HasConsecutiveSeparators(relative_path) THEN Err(Path("ConsecutiveSeparator"))
    ELSE LET iter == RSplitN2(relative_path)
         IN  Ok([sub_dir |-> iter[2], file_name |-> iter[1]])

\* impls/android.rs: fn split_relative_path(relative_path: &str)
split_relative_path(relative_path) ==
    LET trimmed == TrimStartSeparators(relative_path) IN
    IF trimmed = <<>> THEN Err(Path("Empty"))
    ELSE IF EndsWithSeparator(trimmed) THEN Err(Path("DoesNotContainFileName"))
    ELSE IF ~ContainsSeparator(trimmed) THEN Err(Path("DoesNotContainSubDir"))
    ELSE IF HasConsecutiveSeparators(trimmed) THEN Err(Path("ConsecutiveSeparator"))
    ELSE LET iter == RSplitN2(trimmed)
         IN  IF Len(iter) < 1 THEN Err(Path("DoesNotContainFileName"))
             ELSE IF Len(iter) < 2 THEN Err(Path("DoesNotContainSubDir"))
             ELSE Ok([sub_dir |-> iter[2], file_name |-> iter[1]])

\* The function applied to a path (in the Android build, where its module is
\* compiled).
SplitRelativePath(relative_path) ==
    /\ target_os = "android"
    /\ Apply([op |-> "split_relative_path", relative_path |-> relative_path],
             [returns |-> split_relative_path(relative_path)])

\* Option<&str> mime types given to the operations that create a file.
MimeTypes == {None, Some("text/plain")}

\* The file the peer reports to have created.
CreatedDoc == ChildUri("created")

\* The peer's answer to createFile: the new file's FileUri, or an error.
CreateFileAnswers == {Ok(CreatedDoc), Err("createFile failed")}

\* AndroidFs::create_file, inside on_android!
create_file_body(dir, relative_path, mime_type, answer) ==
    [reqs |-> <<[name |-> "createFile", dir |-> dir, mime_type |-> mime_type,
                 relative_path |-> relative_path]>>,
     returns |-> IF answer.kind = "Ok" THEN answer
                 ELSE Err(FromPluginInvokeError(answer.error))]

\* AndroidFs::create_file
create_file(dir, relative_path, mime_type, answer) ==
    on_android(create_file_body(dir, relative_path, mime_type, answer))

CreateFileOp(dir, relative_path, mime_type, answer) ==
    Apply([op |-> "create_file", dir |-> dir, relative_path |-> relative_path,
           mime_type |-> mime_type, answer |-> answer],
          create_file(dir, relative_path, mime_type, answer))

\* enum PublicDir, with the dir_type create_file_in_public_dir matches it to.
PublicDirs ==
    {[variant |-> "Image", dir |-> "Pictures"],
     [variant |-> "GeneralPurpose", dir |-> "Documents"]}

\* The peer's answer to getPublicDirInfo: struct Res { name, uri }, or an error.
PublicDirInfoAnswers(dir) ==
    {Ok([name |-> dir.dir,
         uri |-> <<"content://", "media", "/external/", dir.dir>>]),
     Err("getPublicDirInfo failed")}

\* PublicStorage::create_file_in_public_dir, inside on_android!
create_file_in_public_dir_body(dir, relative_path_with_subdir, mime_type, info, answer) ==
    LET infoReq == [name |-> "getPublicDirInfo", dir |-> dir, dir_type |-> dir.variant] IN
    IF info.kind # "Ok"
    THEN [reqs |-> <<infoReq>>, returns |-> Err(FromPluginInvokeError(info.error))]
    ELSE LET relative_path ==
                 <<info.value.name, "/">> \o TrimStartSeparators(relative_path_with_subdir)
             dir_parent_uri == FileUri(info.value.uri, None)
             created == create_file_body(dir_parent_uri, relative_path, mime_type, answer)
         IN  [reqs |-> <<infoReq>> \o created.reqs, returns |-> created.returns]

\* PublicStorage::create_file_in_public_dir
create_file_in_public_dir(dir, relative_path_with_subdir, mime_type, info, answer) ==
    on_android(
        create_file_in_public_dir_body(dir, relative_path_with_subdir, mime_type, info, answer))

CreateFileInPublicDir(dir, relative_path, mime_type, info, answer) ==
    Apply([op |-> "create_file_in_public_dir", dir |-> dir,
           relative_path |-> relative_path, mime_type |-> mime_type,
           info |-> info, answer |-> answer],
          create_file_in_public_dir(dir, relative_path, mime_type, info, answer))

\* The application's configuration: product_name (absent, empty, or a name
\* holding a separator) and identifier.
AppConfigs ==
    {[product_name |-> None, identifier |-> <<"com.example.app">>],
     [product_name |-> Some(<<>>), identifier |-> <<"com.example.app">>],
     [product_name |-> Some(<<"My", "/", "App">>), identifier |-> <<"com.example.app">>]}

\* app_name.replace('/', " ")
ReplaceSeparators(name) == [i \in 1..Len(name) |-> IF name[i] = "/" THEN " " ELSE name[i]]

\* PublicStorage::create_file_in_public_app_dir
create_file_in_public_app_dir(config, dir, relative_path, mime_type, info, answer) ==
    on_android(
        LET product_name == IF config.product_name.some THEN config.product_name.value
                            ELSE <<>>
            app_name == ReplaceSeparators(IF product_name = <<>> THEN config.identifier
                                          ELSE product_name)
            relative_path_with_subdir ==
                app_name \o <<"/">> \o TrimStartSeparators(relative_path)
        IN  create_file_in_public_dir_body(dir, relative_path_with_subdir, mime_type,
                                           info, answer))

CreateFileInPublicAppDir(config, dir, relative_path, mime_type, info, answer) ==
    Apply([op |-> "create_file_in_public_app_dir", config |-> config, dir |-> dir,
           relative_path |-> relative_path, mime_type |-> mime_type,
           info |-> info, answer |-> answer],
          create_file_in_public_app_dir(config, dir, relative_path, mime_type, info, answer))

(***************************************************************************)
(* Local paths of private storage and their conversion to and from FileUri *)
(***************************************************************************)
\* Most pieces in the part of a local path below its base directory.
MaxNameLen == 2

\* Pieces of a file name: plain text, a space, text that reads as a percent
\* escape, and bytes that are not UTF-8.
NamePieces == {"a.txt", " ", "%41"} \cup InvalidUtf8Pieces

\* Absolute paths of files in the private data and cache directories.
LocalPaths ==
    {Join(base, name) :
        base \in {PrivateBaseDirs.data, PrivateBaseDirs.cache},
        name \in UNION {[1..n -> NamePieces] : n \in 1..MaxNameLen}}

Schemes == {"file://", "content://"}

\* What URL parsing makes of a piece of the text after the scheme: characters
\* outside the URL path set are percent-encoded, percent signs are kept.
UrlEncoded(piece) ==
    CASE piece = " " -> "%20"
      [] piece = "U+FFFD" -> "%EF%BF%BD"
      [] OTHER -> piece

\* Percent-decoding of a piece of a URL's path.
UrlDecoded(piece) ==
    CASE piece = "%20" -> " "
      [] piece = "%EF%BF%BD" -> "U+FFFD"
      [] piece = "%41" -> "A"
      [] OTHER -> piece

\* impl From<FileUri> for tauri_plugin_fs::FilePath: value.uri.parse(), which
\* gives FilePath::Url when the text parses as a URL and FilePath::Path of the
\* text otherwise.
FilePathFromFileUri(value) ==
    IF value.uri # <<>> /\ value.uri[1] \in Schemes
    THEN [variant |-> "Url",
          url |-> [i \in 1..Len(value.uri) |->
                     IF i = 1 THEN value.uri[i] ELSE UrlEncoded(value.uri[i])]]
    ELSE [variant |-> "Path", path |-> value.uri]

\* The local path a FilePath stands for (FilePath::into_path): the path
\* itself, or for a file URL its percent-decoded path; no local path for
\* another URL.
IntoPath(file_path) ==
    IF file_path.variant = "Path" THEN Ok(file_path.path)
    ELSE IF file_path.url[1] = "file://"
         THEN Ok([i \in 1..(Len(file_path.url) - 1) |-> UrlDecoded(file_path.url[i + 1])])
         ELSE Err("not a file URL")

\* A path is converted to a FileUri and the FileUri back to a local path.
ConvertPath(path) ==
    Apply([op |-> "file_uri_from_path", path |-> path],
          [returns |-> [uri |-> FileUriFromPath(path),
                        back |-> IntoPath(FilePathFromFileUri(FileUriFromPath(path)))]])

(***************************************************************************)
(* Persisted URI permissions.  The grants live in the platform and are     *)
(* reached through the peer; the plugin keeps no copy of them.             *)
(***************************************************************************)
\* enum PersistableAccessMode
PersistableAccessModes == {"Read", "Write", "ReadAndWrite"}

\* The capabilities a grant can hold.
CapabilitySets == {{"Read"}, {"Read", "Write"}}

\* A grant covers a mode when it holds every capability the mode names.
Covers(caps, mode) ==
    CASE mode = "Read" -> "Read" \in caps
      [] mode = "Write" -> "Write" \in caps
      [] mode = "ReadAndWrite" -> {"Read", "Write"} \subseteq caps

\* A grant recorded under the handle's own identifier, whatever directory it
\* came from.
GrantKey_OwnUri(uri) == uri.uri

\* The identifier a handle's grant is recorded under: that of its origin
\* directory for a handle that has one (an entry read_dir returned, or the
\* directory itself), its own otherwise.
GrantKey(uri) ==
    IF uri.document_top_tree_uri.some THEN uri.document_top_tree_uri.value ELSE uri.uri

\* The peer's checkPersistedUriPermission: whether a persisted grant of the
\* identifier covers the mode.
PeerCheck(held, uri, mode) ==
    \E g \in held : g.uri = GrantKey(uri) /\ Covers(g.caps, mode)

\* The peer's takePersistableUriPermission: the platform persists the
\* capabilities the process holds for the identifier.
PeerTake(held, uri, caps) ==
    {g \in held : g.uri # GrantKey(uri)} \cup {[uri |-> GrantKey(uri), caps |-> caps]}

\* The peer's releasePersistedUriPermission.
PeerRelease(held, uri) == {g \in held : g.uri # GrantKey(uri)}

\* The handles the permission operations are called with: one the pickers
\* return and one no picker has returned.
PermissionHandles == {PickedDoc, ExternalStorageDoc}

\* The handles open-style pickers have returned to callers that hold them now.
PickedHandles ==
    {h \in PermissionHandles :
        \E t \in Callers :
            /\ pc[t] = "returned" /\ op[t] \in OpenStyleOps
            /\ result[t].kind = "Ok"
            /\ \E i \in 1..Len(result[t].value) : result[t].value[i] = h}

\* The check with the peer's answer replaced by true (`.map(|_| true)`).
check_persisted_uri_permission_AlwaysTrue(uri, mode, answer) ==
    on_android(
        [reqs |-> <<[name |-> "checkPersistedUriPermission", uri |-> uri, mode |-> mode]>>,
         returns |-> IF answer.kind = "Ok" THEN Ok(TRUE)
                     ELSE Err(FromPluginInvokeError(answer.error))])

\* The check with the peer's failure turned into false (`.unwrap_or(false)`).
check_persisted_uri_permission_ErrAsFalse(uri, mode, answer) ==
    on_android(
        [reqs |-> <<[name |-> "checkPersistedUriPermission", uri |-> uri, mode |-> mode]>>,
         returns |-> IF answer.kind = "Ok" THEN Ok(answer.value.value) ELSE Ok(FALSE)])

\* AndroidFs::check_persisted_uri_permission
check_persisted_uri_permission(uri, mode, answer) ==
    on_android(
        [reqs |-> <<[name |-> "checkPersistedUriPermission", uri |-> uri, mode |-> mode]>>,
         returns |-> IF answer.kind = "Ok" THEN Ok(answer.value.value)
                     ELSE Err(FromPluginInvokeError(answer.error))])

\* `answered`: the peer answers the request (it fails otherwise).  The call
\* record keeps the grants and picked handles of the moment of the call.
CheckPersistedUriPermission(uri, mode, answered) ==
    Apply([op |-> "check_persisted_uri_permission", uri |-> uri, mode |-> mode,
           answered |-> answered, held |-> persisted, picked |-> PickedHandles],
          check_persisted_uri_permission(uri, mode,
              IF answered THEN Ok([value |-> PeerCheck(persisted, uri, mode)])
              ELSE Err("checkPersistedUriPermission failed")))

\* take_persistable_uri_permission with the peer's rejection dropped
\* (`let _ = self.api.run_mobile_plugin(..); Ok(())`).
take_persistable_uri_permission_ErrAsOk(uri, answered, caps) ==
    on_android(
        [reqs |-> <<[name |-> "takePersistableUriPermission", uri |-> uri]>>,
         returns |-> Ok(Unit),
         persisted |-> IF answered THEN PeerTake(persisted, uri, caps) ELSE persisted])

\* AndroidFs::take_persistable_uri_permission; `caps` is what the platform
\* persists when the peer answers.
take_persistable_uri_permission(uri, answered, caps) ==
    on_android(
        [reqs |-> <<[name |-> "takePersistableUriPermission", uri |-> uri]>>,
         returns |-> IF answered THEN Ok(Unit)
                     ELSE Err(FromPluginInvokeError("takePersistableUriPermission failed")),
         persisted |-> IF answered THEN PeerTake(persisted, uri, caps) ELSE persisted])

TakePersistableUriPermission(uri, answered, caps) ==
    /\ answered => uri \in PickedHandles
    /\ Apply([op |-> "take_persistable_uri_permission", uri |-> uri, answered |-> answered],
             take_persistable_uri_permission(uri, answered, caps))

\* AndroidFs::release_persisted_uri_permission
release_persisted_uri_permission(uri, answered) ==
    on_android(
        [reqs |-> <<[name |-> "releasePersistedUriPermission", uri |-> uri]>>,
         returns |-> IF answered THEN Ok(Unit)
                     ELSE Err(FromPluginInvokeError("releasePersistedUriPermission failed")),
         persisted |-> IF answered THEN PeerRelease(persisted, uri) ELSE persisted])

ReleasePersistedUriPermission(uri, answered) ==
    Apply([op |-> "release_persisted_uri_permission", uri |-> uri, answered |-> answered],
          release_persisted_uri_permission(uri, answered))

\* AndroidFs::release_all_persisted_uri_permissions
release_all_persisted_uri_permissions(answered) ==
    on_android(
        [reqs |-> <<[name |-> "releaseAllPersistedUriPermissions"]>>,
         returns |-> IF answered THEN Ok(Unit)
                     ELSE Err(FromPluginInvokeError("releaseAllPersistedUriPermissions failed")),
         persisted |-> IF answered THEN {} ELSE persisted])

ReleaseAllPersistedUriPermissions(answered) ==
    Apply([op |-> "release_all_persisted_uri_permissions", answered |-> answered],
          release_all_persisted_uri_permissions(answered))

\* The platform drops a persisted grant behind the plugin's back (the entry
\* was moved or removed, or the user revoked it).
PlatformRevokes(uri) ==
    /\ \E g \in persisted : g.uri = GrantKey(uri)
    /\ persisted' = PeerRelease(persisted, uri)
    /\ UNCHANGED <<target_os, fcall, fres, freqs, pickerVars, writeVars, staticVars>>

(***************************************************************************)
(* Session grants.  A picker's dialog gives the process a grant for what   *)
(* the user selected; the platform keeps it until the process ends.  What  *)
(* the grant holds is what the picker's documentation says of the URI it   *)
(* returns.                                                                *)
(***************************************************************************)
\* show_open_file_dialog documented as the claim has it: a read-only URI.
IntentCaps_OpenFileReadOnly(o) ==
    CASE o \in OpenStyleOps -> {"Read"}
      [] o = "show_manage_dir_dialog" -> {"Read", "Write"}
      [] o = "show_save_file_dialog" -> {"Write"}

\* "returns a **read-write** URIs" (show_open_file_dialog), "**readonly**"
\* (show_open_content_dialog, show_open_visual_media_dialog), "a
\* **read-write** directory URI" (show_manage_dir_dialog), "a **writeonly**
\* URI" (show_save_file_dialog).
IntentCaps(o) ==
    CASE o = "show_open_file_dialog" -> {"Read", "Write"}
      [] o = "show_open_content_dialog" -> {"Read"}
      [] o = "show_open_visual_media_dialog" -> {"Read"}
      [] o = "show_manage_dir_dialog" -> {"Read", "Write"}
      [] o = "show_save_file_dialog" -> {"Write"}

\* show_open_content_dialog: "Can not persist it."
Persistable(o) == o # "show_open_content_dialog"

\* The handles a picker has returned to caller t.
ReturnedHandles(t) ==
    IF pc[t] = "returned" /\ op[t] \in PickerOps /\ result[t].kind = "Ok"
    THEN IF op[t] \in OpenStyleOps
         THEN {result[t].value[i] : i \in 1..Len(result[t].value)}
         ELSE IF result[t].value.some THEN {result[t].value.value} ELSE {}
    ELSE {}

\* The callers whose picker returned the handle or its origin directory.
Pickers(uri) ==
    {t \in Callers : \E h \in ReturnedHandles(t) : GrantKey(h) = GrantKey(uri)}

\* The capabilities of the session grant that covers the handle.
SessionGrant(uri) == UNION {IntentCaps(op[t]) : t \in Pickers(uri)}

\* Those of them the platform lets the process persist.
PersistableGrant(uri) ==
    UNION {IntentCaps(op[t]) : t \in {u \in Pickers(uri) : Persistable(op[u])}}

\* An entry that read_dir returns for the picked document taken as a
\* directory: its origin directory is the picked one.
PickedEntry(name) ==
    FileUri(PickedDoc.uri \o <<"%2F", name>>, Some(PickedDoc.uri))

\* The handles the operations on grants are called with: what the user picks,
\* and two entries below it.
GrantHandles == {PickedDoc, PickedEntry("a.txt"), PickedEntry("later.txt")}

\* Most grants the platform keeps persisted for one application.
GrantCeiling == 1

\* A grant the application persisted in an earlier run.
EarlierGrant ==
    [uri |-> <<"content://", "com.android.externalstorage.documents",
               "/tree/primary%3Aother">>,
     caps |-> {"Read", "Write"}]

\* Persisting one more identifier would exceed the ceiling.
AtCeiling(held, uri) ==
    /\ \A g \in held : g.uri # GrantKey(uri)
    /\ Cardinality(held) >= GrantCeiling

\* The peer persists a grant when the process holds a persistable grant for
\* the handle and the ceiling is not reached; it rejects the request
\* otherwise.
PeerAcceptsTake(held, uri, caps) == caps # {} /\ ~AtCeiling(held, uri)

\* take_persistable_uri_permission answered by the platform: `peer_ok` is
\* whether the invoke itself goes through.
TakeOfSessionGrant(uri, peer_ok) ==
    LET caps == PersistableGrant(uri)
        answered == peer_ok /\ PeerAcceptsTake(persisted, uri, caps)
        e == take_persistable_uri_permission(uri, answered, caps)
    IN  Apply([op |-> "take_persistable_uri_permission", uri |-> uri,
               peer_ok |-> peer_ok, answered |-> answered,
               held |-> persisted, session |-> SessionGrant(uri),
               persistable |-> caps, at_ceiling |-> AtCeiling(persisted, uri),
               after |-> EffPersisted(e)],
              e)

\* The peer's answer to getAllPersistedUriPermissions: struct Obj { uri, r,
\* w, d } for each persisted grant, in some order.
PeerList(held, d) ==
    {[i \in 1..Cardinality(held) |->
         [uri |-> FileUri(order[i].uri, None), r |-> "Read" \in order[i].caps,
          w |-> "Write" \in order[i].caps, d |-> d]] :
     order \in {o \in [1..Cardinality(held) -> held] :
                  \A i, j \in 1..Cardinality(held) : i # j => o[i] # o[j]}}

\* The closure of get_all_persisted_uri_permissions with the match on v.d
\* turned around.
PersistedUriPermissionOf_DirForFile(v) ==
    [variant |-> IF v.d THEN "File" ELSE "Dir",
     uri |-> v.uri, can_read |-> v.r, can_write |-> v.w]

\* match v.d { true => PersistedUriPermission::Dir {..}, false => ::File {..} }
PersistedUriPermissionOf(v) ==
    [variant |-> IF v.d THEN "Dir" ELSE "File",
     uri |-> v.uri, can_read |-> v.r, can_write |-> v.w]

\* AndroidFs::get_all_persisted_uri_permissions
get_all_persisted_uri_permissions(answer) ==
    on_android(
        [reqs |-> <<[name |-> "getAllPersistedUriPermissions"]>>,
         returns |-> IF answer.kind = "Ok"
                     THEN Ok([i \in 1..Len(answer.value.items) |->
                                 PersistedUriPermissionOf(answer.value.items[i])])
                     ELSE Err(FromPluginInvokeError(answer.error))])

GetAllPersistedUriPermissions(answer) ==
    Apply([op |-> "get_all_persisted_uri_permissions", answer |-> answer,
           held |-> persisted],
          get_all_persisted_uri_permissions(answer))

(***************************************************************************)
(* Other operations of the three facades.                                  *)
(***************************************************************************)
\* AndroidFs::read: open_file(uri, FileAccessMode::Read)?, then
\* file.read_to_end(&mut buf)?; Ok(buf)
read(uri, opened, bytes) ==
    on_android(
        [reqs |-> <<[name |-> "getFileDescriptor", uri |-> uri, mode |-> ModeString("Read")]>>,
         returns |-> IF ~opened THEN Err(FromPluginInvokeError("getFileDescriptor failed"))
                     ELSE IF bytes.kind = "Ok" THEN Ok(bytes.value)
                     ELSE Err(Io(bytes.error))])

Read(uri, opened, bytes) ==
    Apply([op |-> "read", uri |-> uri, opened |-> opened, bytes |-> bytes],
          read(uri, opened, bytes))

\* AndroidFs::is_available: cfg!(target_os = "android")
is_available == target_os = "android"

IsAvailable == Apply([op |-> "is_available"], [returns |-> [bool |-> is_available]])

\* Operations that hand one FileUri to the peer and return one field of its
\* answer: the request each dispatches.
UriRequest(o) ==
    CASE o = "get_name" -> "getName"
      [] o = "get_mime_type" -> "getMimeType"
      [] o = "remove_file" -> "deleteFile"
      [] o = "remove_dir" -> "deleteEmptyDir"
      [] o = "remove_dir_all" -> "deleteDirAll"
      [] o = "can_share_file" -> "canShareFile"
      [] o = "can_view_file" -> "canViewFile"

UriOps ==
    {"get_name", "get_mime_type", "remove_file", "remove_dir", "remove_dir_all",
     "can_share_file", "can_view_file"}

\* The value the peer answers such a request with, as the operation returns
\* it (`|v| v.name`, `|v| v.value`, `|_| ()`).
UriOpValue(o) ==
    CASE o = "get_name" -> [name |-> "a.txt"]
      [] o = "get_mime_type" -> Some("text/plain")
      [] o \in {"remove_file", "remove_dir", "remove_dir_all"} -> Unit
      [] o \in {"can_share_file", "can_view_file"} -> [bool |-> TRUE]

\* get_name, get_mime_type, remove_file, remove_dir, remove_dir_all,
\* can_share_file, can_view_file
uri_operation(o, uri, answered) ==
    on_android(
        [reqs |-> <<[name |-> UriRequest(o), uri |-> uri]>>,
         returns |-> IF answered THEN Ok(UriOpValue(o))
                     ELSE Err(FromPluginInvokeError("the request failed"))])

UriOperation(o, uri, answered) ==
    Apply([op |-> o, uri |-> uri, answered |-> answered], uri_operation(o, uri, answered))

\* PrivateStorage::resolve_uri_with: resolve_path_with(dir, relative_path)
\* .map(Into::into), with resolve_path's lookup of the base directories.
resolve_uri_with(dir, relative_path, answered) ==
    on_android(
        IF PATHS.some
        THEN [returns |-> Ok(FileUriFromPath(resolve_path_with(PATHS.value, dir, relative_path)))]
        ELSE IF answered
        THEN [reqs |-> <<[name |-> "getPrivateBaseDirAbsolutePaths"]>>,
              paths |-> Some(PrivateBaseDirs),
              returns |-> Ok(FileUriFromPath(
                              resolve_path_with(PrivateBaseDirs, dir, relative_path)))]
        ELSE [reqs |-> <<[name |-> "getPrivateBaseDirAbsolutePaths"]>>,
              returns |-> Err(FromPluginInvokeError("getPrivateBaseDirAbsolutePaths failed"))])

ResolveUriWith(dir, relative_path, answered) ==
    LET e == resolve_uri_with(dir, relative_path, answered) IN
    /\ fcall' = [op |-> "resolve_uri_with", dir |-> dir,
                 relative_path |-> relative_path, answered |-> answered]
    /\ fres' = e.returns
    /\ freqs' = EffReqs(e)
    /\ PATHS' = IF "paths" \in DOMAIN e THEN e.paths ELSE PATHS
    /\ UNCHANGED <<target_os, persisted, pickerVars, wpc, call, COUNTER,
                   tmp_file_path, wresult, tmp_dir, files, reqs, trace,
                   staticVars>>

FacadeInit ==
    /\ fcall = [op |-> "none"]
    /\ fres = NoResult
    /\ freqs = <<>>
    /\ persisted = {}

\* The plugin as built for Android, right after its construction.
Init == PickerInit /\ WriteInit /\ FacadeInit /\ target_os = "android"

(***************************************************************************)
(* Specifications: the dialogs alone, and the write path alone.            *)
(***************************************************************************)
PickerSpec == Init /\ [][PickerNext]_vars

WriteSpec == Init /\ [][WriteNext]_vars

\* The write path with abnormal exits.
AbnormalExitSpec == Init /\ [][AbnormalExitNext]_vars

\* The trait's staged write.
TraitSpec == Init /\ [][TraitNext]_vars

\* The dialogs with panics inside the peer call, scheduled as in
\* FairPickerSpec: a dialog ends or its thread panics.
PanicNext ==
    \/ \E t \in Callers, o \in DialogOps : CallDialog(t, o)
    \/ \E t \in Callers : AcquireIntentLock(t)
    \/ \E t \in Callers, oc \in {"selected", "cancelled", "failed", "shown"} : RunDialog(t, oc)
    \/ \E t \in Callers : ReturnDialog(t)
    \/ \E t \in Callers : DialogPanics(t)

PanicSpec ==
    /\ Init /\ [][PanicNext]_vars
    /\ \A t \in Callers :
          /\ SF_vars(AcquireIntentLock(t))
          /\ WF_vars(\E oc \in {"selected", "cancelled", "failed", "shown"} : RunDialog(t, oc))
          /\ WF_vars(ReturnDialog(t))

\* Staged writes and get_thumbnail calls together.
ThumbnailSpec == Init /\ [][ThumbnailNext]_vars

\* Staged writes, each resolving its temp path, with the peer free in what it
\* answers to each query of the base directories.
ResolveNext ==
    \/ \E w \in Writers : CallWrite(w, "write_via_kotlin_in", GoogleDriveLegacyDoc, <<1>>)
    \/ \E w \in Writers : FetchAdd(w)
    \/ \E w \in Writers : ResolveCached(w)
    \/ \E w \in Writers : ResolveCheck(w)
    \/ \E w \in Writers, ok \in BOOLEAN, paths \in {PrivateBaseDirs, OtherBaseDirs} :
          ResolveQueryAnswered(w, ok, paths)
    \/ \E w \in Writers, ok \in BOOLEAN : CreateDirAll(w, ok)
    \/ \E w \in Writers, ok \in BOOLEAN : CreateFile(w, ok)
    \/ \E w \in Writers, ok \in BOOLEAN, b \in AllContents : ContentsWriter(w, ok, b)
    \/ \E w \in Writers, ok \in BOOLEAN : CopyViaKotlin(w, ok)
    \/ \E w \in Writers, ok \in BOOLEAN : RemoveFile(w, ok)

ResolveSpec == Init /\ [][ResolveNext]_vars

\* No operation has been called yet.
FirstCall == fcall.op = "none"

\* The operations that are one call and its answer, on Android.  All but
\* resolve_uri_with keep nothing from one call to the next, so a run makes one
\* call of them; resolve_uri_with, which caches the base directories, is
\* called again and again.
FacadeNext ==
    \/ FirstCall /\ \E answer \in ReadDirAnswers : ReadDir(DocsDir, answer)
    \/ FirstCall /\ \E p \in RelativePaths : SplitRelativePath(p)
    \/ FirstCall /\ \E p \in RelativePaths, m \in MimeTypes, answer \in CreateFileAnswers :
          CreateFileOp(DocsDir, p, m, answer)
    \/ FirstCall /\ \E d \in PublicDirs, p \in RelativePaths, m \in MimeTypes,
                       answer \in CreateFileAnswers :
          \E info \in PublicDirInfoAnswers(d) : CreateFileInPublicDir(d, p, m, info, answer)
    \/ FirstCall /\ \E c \in AppConfigs, d \in PublicDirs, p \in RelativePaths,
                       m \in MimeTypes, answer \in CreateFileAnswers :
          \E info \in PublicDirInfoAnswers(d) :
              CreateFileInPublicAppDir(c, d, p, m, info, answer)
    \/ FirstCall /\ \E path \in LocalPaths : ConvertPath(path)
    \/ FirstCall /\ \E o \in UriOps, answered \in BOOLEAN :
          UriOperation(o, PickedDoc, answered)
    \/ /\ fcall.op \in {"none", "resolve_uri_with"}
       /\ \E d \in {"Data", "Cache"}, p \in RelativePaths, answered \in BOOLEAN :
             ResolveUriWith(d, p, answered)
    \/ FirstCall /\ IsAvailable

FacadeSpec == Init /\ [][FacadeNext]_vars

\* The plugin as built for another platform than Android.
NotAndroidInit == PickerInit /\ WriteInit /\ FacadeInit /\ target_os = "other"

\* Every kind of operation of AndroidFs, PrivateStorage and PublicStorage,
\* called off Android.
NotAndroidNext ==
    \/ \E t \in Callers, o \in DialogOps : CallDialog(t, o)
    \/ \E w \in Writers, fn \in WriteFns : CallWrite(w, fn, GoogleDriveLegacyDoc, <<>>)
    \/ ReadDir(DocsDir, Err("no peer"))
    \/ \E p \in {<<>>, <<"a", "/", "b.txt">>} :
          CreateFileOp(DocsDir, p, None, Err("no peer"))
    \/ \E d \in PublicDirs, p \in {<<>>, <<"a", "/", "b.txt">>} :
          CreateFileInPublicDir(d, p, None, Err("no peer"), Err("no peer"))
    \/ \E c \in AppConfigs, d \in PublicDirs :
          CreateFileInPublicAppDir(c, d, <<"b.txt">>, None, Err("no peer"), Err("no peer"))
    \/ \E o \in UriOps : UriOperation(o, PickedDoc, FALSE)
    \/ \E d \in {"Data", "Cache"} : ResolveUriWith(d, <<"b.txt">>, FALSE)
    \/ \E m \in PersistableAccessModes : CheckPersistedUriPermission(PickedDoc, m, FALSE)
    \/ TakePersistableUriPermission(PickedDoc, FALSE, {"Read"})
    \/ ReleasePersistedUriPermission(PickedDoc, FALSE)
    \/ ReleaseAllPersistedUriPermissions(FALSE)
    \/ IsAvailable

NotAndroidSpec == NotAndroidInit /\ [][NotAndroidNext]_vars

\* The plugin on either platform.
PermInit ==
    PickerInit /\ WriteInit /\ FacadeInit /\ target_os \in {"android", "other"}

\* The open-file dialog and the operations on persisted permissions.
PermNext ==
    \/ \E t \in Callers : CallDialog(t, "show_open_file_dialog")
    \/ \E t \in Callers : AcquireIntentLock(t)
    \/ \E t \in Callers, oc \in {"selected", "cancelled", "failed"} : RunDialog(t, oc)
    \/ \E t \in Callers : ReturnDialog(t)
    \/ \E uri \in PermissionHandles, m \in PersistableAccessModes, answered \in BOOLEAN :
          CheckPersistedUriPermission(uri, m, answered)
    \/ \E uri \in PermissionHandles, answered \in BOOLEAN, caps \in CapabilitySets :
          TakePersistableUriPermission(uri, answered, caps)
    \/ \E uri \in PermissionHandles, answered \in BOOLEAN :
          ReleasePersistedUriPermission(uri, answered)
    \/ \E answered \in BOOLEAN : ReleaseAllPersistedUriPermissions(answered)
    \/ \E uri \in PermissionHandles : PlatformRevokes(uri)

PermSpec == PermInit /\ [][PermNext]_vars

\* The plugin on Android, started with or without a grant persisted in an
\* earlier run.
GrantInit ==
    /\ PickerInit /\ WriteInit
    /\ fcall = [op |-> "none"] /\ fres = NoResult /\ freqs = <<>>
    /\ persisted \in {{}, {EarlierGrant}}
    /\ target_os = "android"

\* One use of a picker, and the operations on grants.
GrantNext ==
    \/ \E t \in Callers, o \in PickerOps :
          (\A u \in Callers : pc[u] = "idle") /\ CallDialog(t, o)
    \/ \E t \in Callers : AcquireIntentLock(t)
    \/ \E t \in Callers, oc \in {"selected", "cancelled", "failed"} : RunDialog(t, oc)
    \/ \E t \in Callers : ReturnDialog(t)
    \/ \E uri \in GrantHandles, m \in PersistableAccessModes, answered \in BOOLEAN :
          CheckPersistedUriPermission(uri, m, answered)
    \/ \E uri \in GrantHandles, peer_ok \in BOOLEAN : TakeOfSessionGrant(uri, peer_ok)
    \/ \E uri \in GrantHandles, answered \in BOOLEAN :
          ReleasePersistedUriPermission(uri, answered)
    \/ \E d \in BOOLEAN :
          \E answer \in {Err("getAllPersistedUriPermissions failed")} \cup
                         {Ok([items |-> items]) : items \in PeerList(persisted, d)} :
              GetAllPersistedUriPermissions(answer)
    \/ \E uri \in GrantHandles : PlatformRevokes(uri)

GrantSpec == GrantInit /\ [][GrantNext]_vars

\* A step of a write call in progress.
WriteStep(w) ==
    \/ \E ok \in BOOLEAN : OpenFile(w, ok)
    \/ \E ok \in BOOLEAN : WriteAll(w, ok)
    \/ FetchAdd(w)
    \/ ResolveCached(w)
    \/ ResolveCheck(w)
    \/ \E ok \in BOOLEAN : ResolveQuery(w, ok)
    \/ \E ok \in BOOLEAN : CreateDirAll(w, ok)
    \/ \E ok \in BOOLEAN : CreateFile(w, ok)
    \/ \E ok \in BOOLEAN, b \in AllContents : ContentsWriter(w, ok, b)
    \/ \E ok \in BOOLEAN : CopyViaKotlin(w, ok)
    \/ \E ok \in BOOLEAN : RemoveFile(w, ok)

\* The operations that are no picker, each called once with the peer
\* answering or failing.
OtherOperation(answered) ==
    \/ Read(PickedDoc, answered, Ok(<<1>>))
    \/ ReadDir(DocsDir, IF answered THEN Ok([entries |-> <<>>]) ELSE Err("readDir failed"))
    \/ CreateFileOp(DocsDir, <<"a", "/", "b.txt">>, None,
                    IF answered THEN Ok(CreatedDoc) ELSE Err("createFile failed"))
    \/ \E o \in {"remove_file", "remove_dir", "remove_dir_all"} :
          UriOperation(o, PickedDoc, answered)
    \/ CheckPersistedUriPermission(PickedDoc, "Read", answered)
    \/ TakeOfSessionGrant(PickedDoc, answered)
    \/ ReleasePersistedUriPermission(PickedDoc, answered)
    \/ GetAllPersistedUriPermissions(
          IF answered THEN Ok([items |-> <<>>]) ELSE Err("getAllPersistedUriPermissions failed"))
    \/ ResolveUriWith("Cache", <<"a">>, answered)

\* One caller uses the pickers and another the share and view dialogs, while
\* a writer writes and the other operations are called.
OpenDialogNext ==
    \/ \E o \in PickerOps : CallDialog(1, o)
    \/ \E o \in ShareViewOps : CallDialog(2, o)
    \/ \E t \in Callers : AcquireIntentLock(t)
    \/ \E t \in Callers, oc \in {"selected", "cancelled", "failed", "shown"} : RunDialog(t, oc)
    \/ \E t \in Callers : ReturnDialog(t)
    \/ \E uri \in {GoogleDriveLegacyDoc, ExternalStorageDoc} : CallWrite("w1", "write", uri, <<1>>)
    \/ WriteStep("w1")
    \/ FirstCall /\ \E answered \in BOOLEAN : OtherOperation(answered)

OpenDialogSpec == Init /\ [][OpenDialogNext]_vars

\* The dialogs under the scheduling the claims about waiting assume: a mutex
\* that does not starve a waiter (a caller that finds the lock free again and
\* again eventually gets it), a dialog that the user or the peer eventually
\* ends, and a thread that keeps running to the end of its function.
FairPickerSpec ==
    /\ PickerSpec
    /\ \A t \in Callers :
          /\ SF_vars(AcquireIntentLock(t))
          /\ WF_vars(\E oc \in {"selected", "cancelled", "failed", "shown"} : RunDialog(t, oc))
          /\ WF_vars(ReturnDialog(t))

(***************************************************************************)
(* Properties of the dialogs.                                              *)
(***************************************************************************)
\* Caller t is inside the peer's dialog call of one of the five pickers.
InPickerDialog(t) == op[t] \in PickerOps /\ pc[t] = "dispatch"

\* Caller t is inside the peer's call of any dialog operation.
InAnyDialog(t) == op[t] \in DialogOps /\ pc[t] = "dispatch"

\* C1: at every moment at most one of the five picker operations is inside
\* its native-peer dialog call, whatever the callers and the mix of operations.
C1_AtMostOnePickerInDialog ==
    \A t1, t2 \in Callers : (InPickerDialog(t1) /\ InPickerDialog(t2)) => t1 = t2

\* One picker is in its dialog while a caller of a different picker waits
\* for the lock.
C1_Witness ==
    \E t1, t2 \in Callers :
        /\ InPickerDialog(t1)
        /\ pc[t2] = "lock"
        /\ op[t2] \in PickerOps
        /\ op[t2] # op[t1]

\* C2 as stated: a share or view dialog is never in flight at the same time
\* as any other picker-intent operation.
C2_ShareViewSerialized ==
    \A t1, t2 \in Callers :
        (InAnyDialog(t1) /\ InAnyDialog(t2) /\ op[t1] \in ShareViewOps) => t1 = t2

\* C2, amended: share and view dialogs never take (or wait for) the intent
\* lock, so they are dispatched whatever the lock's state; only the five
\* pickers hold it.
C2_ShareViewNeverLock ==
    \A t \in Callers :
        op[t] \in ShareViewOps => (intent_lock # t /\ pc[t] # "lock")

\* A share dialog is in flight while a picker holds the lock in its own dialog.
C2_Witness ==
    \E t1, t2 \in Callers :
        /\ op[t1] = "show_share_file_dialog" /\ pc[t1] = "dispatch"
        /\ InPickerDialog(t2) /\ intent_lock = t2

\* The lock is free whenever no picker call is between its acquisition and
\* its return, and a caller that has returned holds no guard, whatever the
\* peer reported.
LockFreeOutsidePickers ==
    /\ (\A t \in Callers : ~(op[t] \in PickerOps /\ pc[t] \in {"dispatch", "exit"}))
          => intent_lock = 0
    /\ \A t \in Callers : pc[t] \in {"idle", "lock", "returned"} => intent_lock # t

\* C3: every picker operation releases the lock before it returns (selection,
\* cancellation or error), so the lock is free whenever no picker call is in
\* progress, and a caller blocked on the lock eventually enters its dialog.
C3_LockReleasedOnEveryExit ==
    /\ []LockFreeOutsidePickers
    /\ \A t \in Callers : (pc[t] = "lock") ~> (pc[t] = "dispatch" /\ intent_lock = t)

\* A picker has returned the peer's error, the lock is free again, and
\* another caller is about to take it.
C3_Witness ==
    \E t1, t2 \in Callers :
        /\ op[t1] \in PickerOps /\ pc[t1] = "returned" /\ outcome[t1] = "failed"
        /\ pc[t2] = "lock"
        /\ intent_lock = 0

\* C4: a cancelled picker returns Ok with an empty collection (open-style) or
\* None (save / manage-directory); a picker the peer fails on returns Err with
\* the PluginInvoke variant, never an empty or None success; so the two differ
\* in the result's variant.
C4_CancelIsEmptyOkFailureIsErr ==
    \A t \in Callers :
        (pc[t] = "returned" /\ op[t] \in PickerOps) =>
            /\ outcome[t] = "cancelled" =>
                  /\ result[t].kind = "Ok"
                  /\ result[t].value = (IF op[t] \in OpenStyleOps THEN <<>> ELSE None)
            /\ outcome[t] = "failed" =>
                  /\ result[t].kind = "Err"
                  /\ result[t].error.variant = "PluginInvoke"
            /\ outcome[t] = "selected" =>
                  /\ result[t].kind = "Ok"
                  /\ result[t].value = (IF op[t] \in OpenStyleOps THEN <<PickedDoc>>
                                        ELSE Some(PickedDoc))

\* An open-style picker has returned from a cancellation and a save dialog
\* from a failure of the peer.
C4_Witness ==
    \E t1, t2 \in Callers :
        /\ pc[t1] = "returned" /\ op[t1] \in OpenStyleOps /\ outcome[t1] = "cancelled"
        /\ pc[t2] = "returned" /\ op[t2] = "show_save_file_dialog" /\ outcome[t2] = "failed"

(***************************************************************************)
(* Properties of the write path.                                           *)
(***************************************************************************)
\* The identifier begins with the allowlisted provider prefix
\* content://com.google.android.apps.docs.storage
Allowlisted(uri) ==
    /\ Len(uri.uri) >= 2
    /\ uri.uri[1] = "content://"
    /\ uri.uri[2] = "com.google.android.apps.docs.storage"

Called(w) == call[w].fn \in WriteFns

Returned(w) == Called(w) /\ wpc[w] = "returned"

\* The call is a staged write: write_via_kotlin, write_via_kotlin_in, or write
\* on an allowlisted identifier.
StagedCall(w) == Called(w) /\ (call[w].fn = "write" => Allowlisted(call[w].uri))

StepOk(w, step) == \E i \in 1..Len(trace[w]) : trace[w][i] = <<step, TRUE>>

StepFailed(w, step) == \E i \in 1..Len(trace[w]) : trace[w][i] = <<step, FALSE>>

StepCount(w, step) == Cardinality({i \in 1..Len(trace[w]) : trace[w][i][1] = step})

CopyReqs(w) == {i \in 1..Len(reqs[w]) : reqs[w][i].name = "copyFile"}

DescriptorReqs(w) == {i \in 1..Len(reqs[w]) : reqs[w][i].name = "getFileDescriptor"}

TmpFileExists(w) == tmp_file_path[w] \in DOMAIN files

\* A step before the provider copy has failed.
FailedBeforeCopy(w) ==
    \/ StepFailed(w, "resolve_path")
    \/ StepFailed(w, "create")
    \/ StepFailed(w, "contents_writer")

\* C5: write takes the staged strategy exactly when the identifier begins with
\* the allowlisted prefix; otherwise it asks the peer for a descriptor in mode
\* "wt" and writes through it, with no temp file and no provider copy; on the
\* staged path it never asks for a descriptor of the target.
C5_StagedIffAllowlisted ==
    \A w \in Writers :
        call[w].fn = "write" =>
            IF Allowlisted(call[w].uri)
            THEN /\ DescriptorReqs(w) = {}
                 /\ wpc[w] \notin {"open", "write_all"}
                 /\ Returned(w) => tmp_file_path[w] # NoPath
            ELSE /\ tmp_file_path[w] = NoPath
                 /\ StepCount(w, "create") = 0
                 /\ CopyReqs(w) = {}
                 /\ Len(reqs[w]) <= 1
                 /\ \A i \in 1..Len(reqs[w]) :
                       reqs[w][i] = [name |-> "getFileDescriptor",
                                     uri |-> call[w].uri, mode |-> "wt"]
                 /\ Returned(w) => Len(reqs[w]) = 1
                 /\ wresult[w].kind = "Ok" => StepOk(w, "write_all")

\* One write to an allowlisted identifier has gone through the provider copy
\* and one write to another identifier through a "wt" descriptor.
C5_Witness ==
    \E w1, w2 \in Writers :
        /\ call[w1].fn = "write" /\ Returned(w1) /\ Allowlisted(call[w1].uri)
        /\ CopyReqs(w1) # {}
        /\ call[w2].fn = "write" /\ Returned(w2) /\ call[w2].uri = EmbeddedPrefixDoc
        /\ wresult[w2] = Ok(Unit)

\* The provider copy a staged call has asked for, if any, is the copy of its
\* own temp file, holding the call's contents, to the call's target.
CopyIsOfOwnTempFile(w) ==
    \A i \in CopyReqs(w) :
        /\ reqs[w][i].src = FileUri(<<"file://">> \o tmp_file_path[w], None)
        /\ reqs[w][i].bytes = call[w].contents
        /\ reqs[w][i].dest = call[w].uri

\* C6 as stated: a write of N bytes to an allowlisted identifier results in
\* exactly one provider copy, of the temp file holding those N bytes to the
\* target.
C6_ExactlyOneCopy ==
    \A w \in Writers :
        (Returned(w) /\ call[w].fn = "write" /\ Allowlisted(call[w].uri)) =>
            /\ Cardinality(CopyReqs(w)) = 1
            /\ CopyIsOfOwnTempFile(w)

\* C6, amended: a staged write asks for at most one provider copy, and for
\* exactly one when the temp file was created and the local write succeeded
\* (none otherwise); the copy's source is the call's temp file holding exactly
\* the N bytes and its destination the target.
C6_OneCopyWhenLocalWriteSucceeded ==
    \A w \in Writers :
        StagedCall(w) =>
            /\ Cardinality(CopyReqs(w)) <= 1
            /\ CopyIsOfOwnTempFile(w)
            /\ Returned(w) =>
                  (Cardinality(CopyReqs(w)) = 1
                      <=> (StepOk(w, "create") /\ StepOk(w, "contents_writer")))

\* A write of MaxLen bytes to an allowlisted identifier has returned after its
\* one provider copy.
C6_Witness ==
    \E w \in Writers :
        /\ Returned(w) /\ call[w].fn = "write" /\ Allowlisted(call[w].uri)
        /\ Len(call[w].contents) = MaxLen
        /\ Cardinality(CopyReqs(w)) = 1
        /\ wresult[w] = Ok(Unit)

\* C7 as stated: after a staged write returns its temp file does not exist,
\* and once all staged writes have returned the temp directory is empty.
C7_TempFileAbsentAfterReturn ==
    /\ \A w \in Writers : (Returned(w) /\ StagedCall(w)) => ~TmpFileExists(w)
    /\ (\A w \in Writers : wpc[w] \in {"idle", "returned"}) => DOMAIN files = {}

\* C7, amended: after a staged write returns, the removal of its temp file has
\* been attempted exactly once if the file was created (and not otherwise),
\* and the file exists only if that removal itself failed; once all staged
\* writes have returned, every file left in the temp directory is one whose
\* removal failed.
C7_TempFileRemovedUnlessRemovalFailed ==
    /\ \A w \in Writers :
          (Returned(w) /\ StagedCall(w)) =>
              /\ StepCount(w, "remove_file") = (IF StepOk(w, "create") THEN 1 ELSE 0)
              /\ TmpFileExists(w) => StepFailed(w, "remove_file")
              /\ StepOk(w, "remove_file") => ~TmpFileExists(w)
    /\ (\A w \in Writers : wpc[w] \in {"idle", "returned"}) =>
          \A p \in DOMAIN files :
              \E w \in Writers : tmp_file_path[w] = p /\ StepFailed(w, "remove_file")

\* Two staged writes have returned, one after a failed local write and one
\* after a failed provider copy, and the temp directory is empty.
C7_Witness ==
    \E w1, w2 \in Writers :
        /\ Returned(w1) /\ StagedCall(w1) /\ StepFailed(w1, "contents_writer")
        /\ Returned(w2) /\ StagedCall(w2) /\ StepFailed(w2, "copy_via_kotlin")
        /\ DOMAIN files = {}

\* The staged write's provider copy failed after a successful local write.
CopyFailedAfterLocalWrite(w) ==
    /\ Returned(w) /\ StagedCall(w)
    /\ StepOk(w, "contents_writer")
    /\ StepFailed(w, "copy_via_kotlin")

\* The error the provider copy's failure is returned as.
CopyError == Err(PluginInvoke("copyFile failed"))

\* C8 as stated: if the provider copy fails after a successful local write,
\* the staged write returns the copy's error and the temp file is absent
\* afterwards.
C8_CopyErrorAndTempFileAbsent ==
    \A w \in Writers :
        CopyFailedAfterLocalWrite(w) => (wresult[w] = CopyError /\ ~TmpFileExists(w))

\* C8, amended: if the provider copy fails after a successful local write, the
\* staged write returns the copy's error whether or not the removal of the
\* temp file succeeds, and the temp file is absent afterwards unless that
\* removal itself failed; a failed removal does not turn a successful write
\* into a failure either.
C8_CopyErrorNeverMasked ==
    \A w \in Writers :
        /\ CopyFailedAfterLocalWrite(w) =>
              /\ wresult[w] = CopyError
              /\ TmpFileExists(w) <=> StepFailed(w, "remove_file")
        /\ (Returned(w) /\ StagedCall(w) /\ StepOk(w, "copy_via_kotlin")) =>
              wresult[w].kind = "Ok"

\* The provider copy failed after a successful local write and the removal
\* of the temp file failed too; another staged write succeeded although its
\* removal failed.
C8_Witness ==
    \E w1, w2 \in Writers :
        /\ CopyFailedAfterLocalWrite(w1) /\ StepFailed(w1, "remove_file")
        /\ Returned(w2) /\ StagedCall(w2) /\ StepOk(w2, "copy_via_kotlin")
        /\ StepFailed(w2, "remove_file")

\* The steps of a staged write whose failure is its result, in step order.
PrimarySteps == {"resolve_path", "create", "contents_writer", "copy_via_kotlin"}

\* The error a failed step is returned as.
StepError(step) ==
    CASE step = "resolve_path" -> PluginInvoke("getPrivateBaseDirAbsolutePaths failed")
      [] step = "create" -> Io("File::create failed")
      [] step = "contents_writer" -> Io("contents_writer failed")
      [] step = "copy_via_kotlin" -> PluginInvoke("copyFile failed")

FailedPrimarySteps(w) ==
    {i \in 1..Len(trace[w]) : trace[w][i][1] \in PrimarySteps /\ ~trace[w][i][2]}

FirstFailedStep(w) ==
    trace[w][CHOOSE i \in FailedPrimarySteps(w) : \A j \in FailedPrimarySteps(w) : i <= j][1]

\* C9: a staged write (byte-buffer or caller-supplied writer) returns success
\* exactly when the local write and the provider copy both succeeded, with the
\* writer's value delivered only then; otherwise it returns the first failure
\* in step order.
C9_SuccessIffBothSucceeded ==
    \A w \in Writers :
        (Returned(w) /\ StagedCall(w)) =>
            /\ wresult[w].kind = "Ok"
                  <=> (StepOk(w, "contents_writer") /\ StepOk(w, "copy_via_kotlin"))
            /\ wresult[w].kind = "Ok" =>
                  wresult[w].value = (IF call[w].fn = "write_via_kotlin_in"
                                      THEN [written |-> Len(call[w].contents)]
                                      ELSE Unit)
            /\ wresult[w].kind # "Ok" =>
                  /\ FailedPrimarySteps(w) # {}
                  /\ wresult[w] = Err(StepError(FirstFailedStep(w)))

\* A byte-buffer staged write has returned the provider copy's error and a
\* staged write with a caller-supplied writer has returned the writer's value.
C9_Witness ==
    \E w1, w2 \in Writers :
        /\ Returned(w1) /\ call[w1].fn = "write_via_kotlin"
        /\ wresult[w1] = CopyError
        /\ Returned(w2) /\ call[w2].fn = "write_via_kotlin_in"
        /\ wresult[w2] = Ok([written |-> MaxLen])

\* C10: in a staged write, if resolving the temp path, creating the temp file
\* or the local write fails, the provider copy is not invoked for that call
\* and no request of the call names the target.
C10_NoCopyAfterEarlierFailure ==
    \A w \in Writers :
        (StagedCall(w) /\ FailedBeforeCopy(w)) =>
            /\ CopyReqs(w) = {}
            /\ StepCount(w, "copy_via_kotlin") = 0
            /\ \A i \in 1..Len(reqs[w]) :
                  reqs[w][i] = [name |-> "getPrivateBaseDirAbsolutePaths"]

\* A staged write whose local write failed has returned, and another whose
\* temp file could not be created.
C10_Witness ==
    \E w1, w2 \in Writers :
        /\ Returned(w1) /\ StagedCall(w1) /\ StepFailed(w1, "contents_writer")
        /\ Returned(w2) /\ StagedCall(w2) /\ StepFailed(w2, "create")
        /\ CopyReqs(w1) = {} /\ CopyReqs(w2) = {}

(***************************************************************************)
(* Temp-file names and abnormal exits.                                     *)
(***************************************************************************)
\* The numeric suffix of a temp-file path: the pieces after the operation tag.
TmpSuffix(path) ==
    LET i == CHOOSE k \in 1..Len(path) : path[k] = "write_via_kotlin_in "
    IN  SubSeq(path, i + 1, Len(path))

\* The writers whose call has obtained its suffix.
Suffixed == {w \in Writers : tmp_file_path[w] # NoPath}

\* The call is between its entry and its return.
InProgress(w) == Called(w) /\ wpc[w] \notin {"idle", "returned"}

\* C11: no two staged writes (in progress together, or not) use the same temp
\* file path: each call takes its suffix from the one counter before it has
\* asked anything of the peer or the file system, the suffixes handed out are
\* 0 .. COUNTER-1, each to one call, and a call that fails keeps its suffix
\* consumed.
C11_UniqueTempPaths ==
    /\ \A w1, w2 \in Suffixed :
          w1 # w2 => /\ TmpSuffix(tmp_file_path[w1]) # TmpSuffix(tmp_file_path[w2])
                     /\ tmp_file_path[w1] # tmp_file_path[w2]
    /\ {TmpSuffix(tmp_file_path[w]) : w \in Suffixed} = {Decimal(n) : n \in 0..(COUNTER - 1)}
    /\ COUNTER = Cardinality(Suffixed)
    /\ \A w \in Writers :
          (StagedCall(w) /\ wpc[w] = "fetch_add") =>
              (trace[w] = <<>> /\ reqs[w] = <<>> /\ tmp_file_path[w] = NoPath)
    /\ \A w \in Writers :
          (StagedCall(w) /\ wpc[w] # "fetch_add") => w \in Suffixed

\* Two staged writes are in progress together, each with its own temp file
\* on disk, after the counter has handed out both suffixes.
C11_Witness ==
    \E w1, w2 \in Writers :
        /\ w1 # w2
        /\ InProgress(w1) /\ InProgress(w2)
        /\ TmpFileExists(w1) /\ TmpFileExists(w2)
        /\ COUNTER = 2

\* C12 as stated: when the caller-supplied writer panics, the temp file of
\* the call is removed all the same.
C12_TempFileRemovedOnPanic ==
    \A w \in Writers : wpc[w] = "panicked" => ~TmpFileExists(w)

\* No call of this process has been entered yet: the state the API object is
\* constructed in.
FreshProcess == \A w \in Writers : wpc[w] = "idle"

\* C13 as stated: when the plugin has started and before the first operation
\* is served, the temp directory holds no file.
C13_TempDirEmptyAtStartup == FreshProcess => DOMAIN files = {}

(***************************************************************************)
(* Properties of the operations that are one call and its answer.          *)
(***************************************************************************)
\* A call of read_dir has returned.
ReadDirReturned == fcall.op = "read_dir"

\* C14: read_dir dispatches exactly one request, readDir with the directory's
\* FileUri.  When the peer answers with rows, the result holds one entry per
\* row, in the rows' order, each with its row's name and FileUri: a Dir entry
\* for a row with no mime type, and a File entry carrying the row's mime type
\* for a row with one, whatever the type ("application/octet-stream" and the
\* empty string included).  When the invoke fails the result is its error.
C14_ReadDirDiscriminant ==
    ReadDirReturned =>
        /\ freqs = <<[name |-> "readDir", uri |-> fcall.uri]>>
        /\ fcall.answer.kind = "Err" =>
              fres = Err(PluginInvoke(fcall.answer.error))
        /\ fcall.answer.kind = "Ok" =>
              LET rows == fcall.answer.value.entries IN
              /\ fres.kind = "Ok"
              /\ Len(fres.value) = Len(rows)
              /\ \A i \in 1..Len(rows) :
                    /\ fres.value[i].name = rows[i].name
                    /\ fres.value[i].uri = rows[i].uri
                    /\ ~rows[i].mime_type.some => fres.value[i].variant = "Dir"
                    /\ rows[i].mime_type.some =>
                          /\ fres.value[i].variant = "File"
                          /\ fres.value[i].mime_type = rows[i].mime_type.value

\* A listing with a row of no type and a row of the generic type has been
\* returned as a Dir entry followed by a File entry of that type.
C14_Witness ==
    /\ ReadDirReturned
    /\ fcall.answer.kind = "Ok"
    /\ Len(fcall.answer.value.entries) = 2
    /\ ~fcall.answer.value.entries[1].mime_type.some
    /\ fcall.answer.value.entries[2].mime_type = Some("application/octet-stream")
    /\ fres.kind = "Ok"
    /\ fres.value[1].variant = "Dir"
    /\ fres.value[2].variant = "File"
    /\ fres.value[2].mime_type = "application/octet-stream"

\* The function that validates a relative path has been applied.
SplitReturned == fcall.op = "split_relative_path"

\* The number of separators a path starts with.
LeadingSeparators(p) ==
    CHOOSE k \in 0..Len(p) :
        /\ \A i \in 1..k : p[i] = "/"
        /\ k = Len(p) \/ p[k + 1] # "/"

\* The path without the separators it starts with.
AfterLeadingSeparators(p) == SubSeq(p, LeadingSeparators(p) + 1, Len(p))

\* The error the four checks give for a path taken as it is, in this order:
\* empty, ends in a separator, holds no separator, holds two separators in
\* a row; "none" for a path that passes them.
PathClass(p) ==
    IF p = <<>> THEN "Empty"
    ELSE IF p[Len(p)] = "/" THEN "DoesNotContainFileName"
    ELSE IF \A i \in 1..Len(p) : p[i] # "/" THEN "DoesNotContainSubDir"
    ELSE IF \E i \in 1..(Len(p) - 1) : p[i] = "/" /\ p[i + 1] = "/"
         THEN "ConsecutiveSeparator"
    ELSE "none"

CreateFileOps ==
    {"create_file", "create_file_in_public_dir", "create_file_in_public_app_dir"}

\* A relative path that names no file: empty (but for separators), ending in
\* a separator, or holding two separators in a row.
Malformed(p) ==
    PathClass(AfterLeadingSeparators(p)) \in
        {"Empty", "DoesNotContainFileName", "ConsecutiveSeparator"}

\* C16 as stated: a call of create_file, create_file_in_public_dir or
\* create_file_in_public_app_dir with a malformed relative path returns a
\* path-validation error and has dispatched no request to the peer.
C16_MalformedPathRejectedBeforeDispatch ==
    (fcall.op \in CreateFileOps /\ Malformed(fcall.relative_path)) =>
        /\ freqs = <<>>
        /\ fres.kind = "Err"
        /\ fres.error.variant = "Path"

Converted == fcall.op = "file_uri_from_path"

\* The path is UTF-8 text in which URL parsing finds no escape.
PlainPath(path) ==
    \A i \in 1..Len(path) : path[i] \notin InvalidUtf8Pieces \cup {"%41"}

\* C18 as stated: every absolute local path of private storage converted to a
\* FileUri and back to a local path is the same path again, and the FileUri
\* has no document_top_tree_uri and is built without a request to the peer.
C18_RoundTripOfEveryPath ==
    Converted =>
        /\ fres.back = Ok(fcall.path)
        /\ fres.uri.document_top_tree_uri = None
        /\ freqs = <<>>

\* C18, amended: the FileUri built from a local path is "file://" followed by
\* the path's text with every byte sequence that is not UTF-8 replaced by
\* U+FFFD, has no document_top_tree_uri, and is built without a request to
\* the peer.  Converting it back gives a local path, which is the original
\* one when the path is UTF-8 text that holds no percent escape (spaces are
\* kept), and another one when it holds bytes that are not UTF-8 or text
\* that reads as a percent escape.
C18_RoundTripOfPlainPaths ==
    Converted =>
        /\ fres.uri.uri = <<"file://">> \o
              [i \in 1..Len(fcall.path) |->
                  IF fcall.path[i] \in InvalidUtf8Pieces THEN "U+FFFD" ELSE fcall.path[i]]
        /\ fres.uri.document_top_tree_uri = None
        /\ freqs = <<>>
        /\ fres.back.kind = "Ok"
        /\ PlainPath(fcall.path) <=> fres.back = Ok(fcall.path)

\* A path whose file name holds a space has come back unchanged, the space
\* having been escaped in between.
C18_Witness ==
    /\ Converted
    /\ \E i \in 1..Len(fcall.path) : fcall.path[i] = " "
    /\ PlainPath(fcall.path)
    /\ FilePathFromFileUri(fres.uri).variant = "Url"
    /\ \E i \in 1..Len(FilePathFromFileUri(fres.uri).url) :
          FilePathFromFileUri(fres.uri).url[i] = "%20"
    /\ fres.back = Ok(fcall.path)

(***************************************************************************)
(* Persisted permissions.                                                  *)
(***************************************************************************)
\* check_persisted_uri_permission has returned.
CheckReturned == fcall.op = "check_persisted_uri_permission"

\* It was called on Android for a handle that an open-style picker had
\* returned to a caller holding it then, and the peer answered.
CheckOfPickedHandle ==
    /\ CheckReturned
    /\ target_os = "android"
    /\ fcall.answered
    /\ fcall.uri \in fcall.picked

\* The capabilities persisted for the call's handle when it was made.
HeldCaps == UNION {g.caps : g \in {h \in fcall.held : h.uri = fcall.uri.uri}}

\* C19 as stated: for a handle returned by an open-style picker,
\* check(h, Write) is false as long as nothing has been persisted for it,
\* and check(h, Read) is true as soon as the picker has returned.
C19_ReadGrantedOnPick ==
    CheckOfPickedHandle =>
        /\ (fcall.mode = "Write" /\ HeldCaps = {}) => fres = Ok(FALSE)
        /\ fcall.mode = "Read" => fres = Ok(TRUE)

\* C19, amended: for a handle returned by an open-style picker, check(h, Write)
\* and check(h, Read) (and check(h, ReadAndWrite)) are all false as long as
\* no permission has been persisted for the handle: the grant the picker
\* gives is not a persisted one.  Once take_persistable_uri_permission has
\* persisted a grant, check answers by that grant: Read is true when it
\* holds read access, Write when it holds write access, ReadAndWrite when it
\* holds both.
C19_NothingPersistedOnPick ==
    CheckOfPickedHandle =>
        /\ HeldCaps = {} => fres = Ok(FALSE)
        /\ fcall.mode = "Read" => fres = Ok("Read" \in HeldCaps)
        /\ fcall.mode = "Write" => fres = Ok("Write" \in HeldCaps)
        /\ fcall.mode = "ReadAndWrite" =>
              fres = Ok("Read" \in HeldCaps /\ "Write" \in HeldCaps)

\* While a caller holds the handle the open-file dialog returned and nothing
\* is persisted, a check of read access has answered false.
C19_Witness ==
    /\ CheckOfPickedHandle
    /\ fcall.mode = "Read"
    /\ fcall.held = {}
    /\ fres = Ok(FALSE)
    /\ \E t \in Callers :
          pc[t] = "returned" /\ op[t] = "show_open_file_dialog" /\ outcome[t] = "selected"

\* C20 as stated: check_persisted_uri_permission never fails: for every
\* handle and mode it returns a boolean, false when no persisted grant
\* covers the mode.
C20_CheckNeverFails ==
    CheckReturned =>
        /\ fres.kind = "Ok"
        /\ fres.value \in BOOLEAN
        /\ HeldCaps = {} => fres.value = FALSE

\* C20, amended: check_persisted_uri_permission sends one request and, when
\* the peer answers, returns a boolean for every handle and mode (a handle
\* whose grant was released or revoked, or that never had one, included):
\* true exactly when a grant persisted for the handle covers the mode.  It
\* fails in two cases only: off Android with NotAndroid and no request, and
\* with the invoke's error when the request fails.
C20_CheckAnswersOrReportsPeer ==
    CheckReturned =>
        /\ target_os # "android" => (fres = Err(NotAndroid) /\ freqs = <<>>)
        /\ target_os = "android" =>
              /\ freqs = <<[name |-> "checkPersistedUriPermission",
                            uri |-> fcall.uri, mode |-> fcall.mode]>>
              /\ ~fcall.answered =>
                    (fres.kind = "Err" /\ fres.error.variant = "PluginInvoke")
              /\ fcall.answered =>
                    /\ fres.kind = "Ok"
                    /\ fres.value \in BOOLEAN
                    /\ fres.value <=>
                          CASE fcall.mode = "Read" -> "Read" \in HeldCaps
                            [] fcall.mode = "Write" -> "Write" \in HeldCaps
                            [] fcall.mode = "ReadAndWrite" ->
                                  {"Read", "Write"} \subseteq HeldCaps

\* While a grant is persisted for another handle, the check of a handle that
\* never had one has answered false.
C20_Witness ==
    /\ CheckReturned
    /\ target_os = "android"
    /\ fcall.answered
    /\ fcall.uri = ExternalStorageDoc
    /\ fcall.held # {}
    /\ fres = Ok(FALSE)

(***************************************************************************)
(* Grants: the ceiling, session grants, and entries of a directory.        *)
(***************************************************************************)
\* take_persistable_uri_permission has returned.
TakeReturned == fcall.op = "take_persistable_uri_permission"

\* The variants of enum Error that other failures are reported with.
GeneralErrorVariants == {"NotAndroid", "Path", "Io", "PluginInvoke"}

\* C21 as stated: persisting a grant the process holds when the ceiling on
\* persisted grants is reached returns an error of a kind of its own, which
\* no other failure is reported with, and leaves the persisted grants as
\* they were.
C21_CeilingReachedIsDistinctError ==
    (TakeReturned /\ fcall.at_ceiling /\ fcall.persistable # {}) =>
        /\ fres.kind = "Err"
        /\ fres.error.variant \notin GeneralErrorVariants
        /\ fcall.after = fcall.held

\* The handle of the call was returned by the open-file dialog, which had
\* returned when the call was made.
OfOpenFileDialog ==
    /\ fcall.session # {}
    /\ \E t \in Callers :
          op[t] = "show_open_file_dialog" /\ fcall.uri \in ReturnedHandles(t)

ClaimedIntentCaps(o) ==
    CASE o \in OpenStyleOps -> {"Read"}
      [] o = "show_manage_dir_dialog" -> {"Read", "Write"}
      [] o = "show_save_file_dialog" -> {"Write"}

\* No grant is persisted for the handle.
NotPersisted(h) == \A g \in persisted : g.uri # GrantKey(h)

\* A grant has been persisted for a handle only by a call of
\* take_persistable_uri_permission in this run that succeeded, or in an
\* earlier run.
PersistedOnlyByTake ==
    \A g \in persisted :
        \/ g = EarlierGrant
        \/ \E t \in Callers : \E h \in ReturnedHandles(t) :
              /\ g.uri = GrantKey(h)
              /\ Persistable(op[t])
              /\ g.caps = IntentCaps(op[t])

EnumeratedHandles == {h \in GrantHandles : h.document_top_tree_uri.some}

\* The persisted grants, among `held`, of the picked directory.
OriginGrants(held) == {g \in held : g.uri = PickedDoc.uri}

FirstFailedCheck(p) ==
    CASE p = <<>> -> "Empty"
      [] p # <<>> /\ p[Len(p)] = "/" -> "DoesNotContainFileName"
      [] p # <<>> /\ p[Len(p)] # "/" /\ "/" \notin {p[i] : i \in 1..Len(p)} ->
            "DoesNotContainSubDir"
      [] p # <<>> /\ p[Len(p)] # "/" /\ "/" \in {p[i] : i \in 1..Len(p)}
            /\ (\E i \in 1..(Len(p) - 1) : <<p[i], p[i + 1]>> = <<"/", "/">>) ->
            "ConsecutiveSeparator"
      [] OTHER -> "none"

\* C25: split_relative_path strips all leading separators and returns the
\* first check that fails of empty, trailing separator, no separator,
\* consecutive separators: "a//" yields DoesNotContainFileName, "/" and "//"
\* yield Empty, "//a" yields DoesNotContainSubDir.  On success it returns
\* (sub_dir, file_name) with file_name not empty and holding no separator and
\* with sub_dir, a separator and file_name making up the stripped input.
C25_SplitOrderAndShape ==
    SplitReturned =>
        LET stripped == AfterLeadingSeparators(fcall.relative_path)
            failed == FirstFailedCheck(stripped)
        IN  /\ (stripped = <<>> \/ stripped[1] # "/")
            /\ failed # "none" => fres = Err(Path(failed))
            /\ fcall.relative_path = <<"a", "/", "/">> =>
                  fres = Err(Path("DoesNotContainFileName"))
            /\ fcall.relative_path \in {<<"/">>, <<"/", "/">>} => fres = Err(Path("Empty"))
            /\ fcall.relative_path = <<"/", "/", "a">> =>
                  fres = Err(Path("DoesNotContainSubDir"))
            /\ failed = "none" =>
                  /\ fres.kind = "Ok"
                  /\ fres.value.file_name # <<>>
                  /\ \A i \in 1..Len(fres.value.file_name) : fres.value.file_name[i] # "/"
                  /\ fres.value.sub_dir \o <<"/">> \o fres.value.file_name = stripped

\* A path with a leading separator has been split into its subdirectory and
\* its file name.
C25_Witness ==
    /\ SplitReturned
    /\ fcall.relative_path = <<"/", "a", "/", "b.txt">>
    /\ fres = Ok([sub_dir |-> <<"a">>, file_name |-> <<"b.txt">>])

\* The writer is between `let _guard = TMP_FILE_LOCK.lock()` and the end of
\* the trait's write_via_kotlin_in.
UnderTmpFileLock(w) ==
    wpc[w] \in {"resolve_tmp_file", "create_tmp_file", "writer", "copy", "remove"}

\* The writer has created the shared temp file and not yet removed it.
UsesTmpFile(w) == wpc[w] \in {"writer", "copy", "remove"}

\* C26: in the trait's staged write no two calls are at once between
\* creating the shared temp file and removing it.  The mutex is held by a
\* call from before the temp path is resolved until the temp file is
\* removed, and by no call that has returned, also not by one that returned
\* early because the path was not resolved or the temp file not created; so
\* what the peer is asked to copy is what this call's writer wrote.
C26_TmpFileUsedByOneWriteAtATime ==
    /\ \A w1, w2 \in Writers : (UsesTmpFile(w1) /\ UsesTmpFile(w2)) => w1 = w2
    /\ \A w \in Writers : UnderTmpFileLock(w) <=> TMP_FILE_LOCK = w
    /\ (\A w \in Writers : wpc[w] \in {"idle", "lock", "returned", "panicked"}) =>
          TMP_FILE_LOCK = "free"
    /\ \A w \in Writers :
          (wpc[w] \in {"copy", "remove"} /\ wresult[w].kind = "Ok"
              /\ \E i \in 1..Len(trace[w]) : trace[w][i] = <<"contents_writer", TRUE>>) =>
             /\ tmp_file_path[w] \in DOMAIN files
             /\ files[tmp_file_path[w]] = call[w].contents
    /\ \A w \in Writers :
          (wpc[w] = "remove" /\ Len(reqs[w]) > 0 /\ reqs[w][Len(reqs[w])].name = "copyFile") =>
             reqs[w][Len(reqs[w])].bytes = call[w].contents

\* One call has returned early because the temp file was not created, and
\* the other is between creating the temp file and removing it, holding the
\* mutex.
C26_Witness ==
    /\ wpc["w1"] = "returned"
    /\ wresult["w1"] = Err(Io("File::create failed"))
    /\ wpc["w2"] = "copy"
    /\ TMP_FILE_LOCK = "w2"

\* A thread has panicked inside a picker, where it held the lock.
PanickedInPicker(t) == pc[t] = "panicked" /\ op[t] \in PickerOps

\* The lock is held by a running picker call or by none, and at most one
\* picker call is past the lock.
HeldByRunningPicker ==
    /\ intent_lock # 0 => (op[intent_lock] \in PickerOps /\ pc[intent_lock] \in {"dispatch", "exit"})
    /\ \A t \in Callers :
          (op[t] \in PickerOps /\ pc[t] \in {"dispatch", "exit"}) => intent_lock = t

\* C28: when a picker panics holding the picker lock, the lock is released
\* and marked poisoned.  Every later picker ignores the poison: it leaves
\* its wait only by taking the free lock, it then runs alone, and a picker
\* that waits for the lock gets it in the end, so the lock is never stuck.
C28_PoisonedLockStillExcludes ==
    /\ [](poisoned <=> \E t \in Callers : PanickedInPicker(t))
    /\ []HeldByRunningPicker
    /\ [][\A t \in Callers :
            (pc[t] = "lock" /\ pc'[t] # "lock") =>
                (intent_lock = 0 /\ intent_lock' = t /\ pc'[t] = "dispatch")]_vars
    /\ [][\A t \in Callers :
            (pc[t] = "dispatch" /\ pc'[t] = "panicked" /\ intent_lock = t) =>
                (intent_lock' = 0 /\ poisoned')]_vars
    /\ \A t \in Callers : (pc[t] = "lock") ~> (pc[t] = "dispatch" /\ intent_lock = t)

\* After a picker's panic has poisoned the lock, another picker holds it and
\* is in its dialog.
C28_Witness ==
    /\ poisoned
    /\ \E t1, t2 \in Callers :
          /\ PanickedInPicker(t1)
          /\ op[t2] \in PickerOps /\ pc[t2] = "dispatch" /\ intent_lock = t2

\* A picker call holds the intent lock and is inside the peer's dialog call.
PickerDialogOpen == intent_lock # 0 /\ pc[intent_lock] = "dispatch"

\* C27: the operations that are no picker never take the picker lock and
\* never wait for it.  A share or view dialog is never at the lock and never
\* holds it; and whatever the lock's state, also while a picker's dialog is
\* open and stays open, every other operation can be called and returns, a
\* write can be called, a write in progress can take its next step, and a
\* share or view dialog can be called and goes on to its peer call.
C27_OthersRunWhilePickerOpen ==
    /\ \A t \in Callers :
          op[t] \in ShareViewOps => (pc[t] # "lock" /\ intent_lock # t)
    /\ FirstCall => \A answered \in BOOLEAN :
          /\ ENABLED Read(PickedDoc, answered, Ok(<<1>>))
          /\ ENABLED ReadDir(DocsDir, Err("readDir failed"))
          /\ ENABLED CreateFileOp(DocsDir, <<"a", "/", "b.txt">>, None, Ok(CreatedDoc))
          /\ \A o \in {"remove_file", "remove_dir", "remove_dir_all"} :
                ENABLED UriOperation(o, PickedDoc, answered)
          /\ ENABLED CheckPersistedUriPermission(PickedDoc, "Read", answered)
          /\ ENABLED TakeOfSessionGrant(PickedDoc, answered)
          /\ ENABLED ReleasePersistedUriPermission(PickedDoc, answered)
          /\ ENABLED GetAllPersistedUriPermissions(Ok([items |-> <<>>]))
    /\ wpc["w1"] = "idle" => ENABLED CallWrite("w1", "write", GoogleDriveLegacyDoc, <<1>>)
    /\ wpc["w1"] \notin {"idle", "returned"} => ENABLED WriteStep("w1")
    /\ pc[2] \in {"idle", "returned"} =>
          \A o \in ShareViewOps : ENABLED (CallDialog(2, o) /\ pc'[2] = "dispatch")
    /\ (pc[2] = "dispatch" /\ op[2] \in ShareViewOps) => ENABLED RunDialog(2, "shown")
    /\ (pc[2] = "exit" /\ op[2] \in ShareViewOps) => ENABLED ReturnDialog(2)

\* While a picker's dialog is open a staged write, a removal and a share
\* dialog have returned.
C27_Witness ==
    /\ PickerDialogOpen
    /\ wpc["w1"] = "returned" /\ wresult["w1"] = Ok(Unit) /\ call["w1"].uri = GoogleDriveLegacyDoc
    /\ fcall.op = "remove_file" /\ fres = Ok(Unit)
    /\ pc[2] = "returned" /\ op[2] = "show_share_file_dialog" /\ result[2] = Ok(Unit)

\* The writers whose call, a staged write or a get_thumbnail, has named its
\* temp file.
NamedTmpFile == {w \in Writers : tmp_file_path[w] # NoPath}

\* The temp file's name: the pieces of its path after the last separator,
\* the operation's tag and the digits of the counter's value.
TmpFileName(path) ==
    LET k == CHOOSE i \in 1..Len(path) :
                 path[i] = "/" /\ \A j \in (i + 1)..Len(path) : path[j] # "/"
    IN  SubSeq(path, k + 1, Len(path))

\* The call of w is a get_thumbnail.
IsGetThumbnail(w) == call[w].fn = "get_thumbnail"

ResolvedPath(w) ==
    /\ wpc[w] \in {"create_dir_all", "create", "writer", "copy", "remove", "returned"}
    /\ ~StepFailed(w, "resolve_path")

\* The number of times the writer's call asked the peer for the base
\* directories.
BaseDirQueries(w) ==
    Cardinality({i \in 1..Len(reqs[w]) : reqs[w][i].name = "getPrivateBaseDirAbsolutePaths"})

\* C30: resolve_path caches the base directories once per process.  A query
\* that fails leaves the cache as it was and the call returns the error, so
\* the cache is empty until a query succeeds and a later call asks again;
\* once the cache is set it never changes, and a call that finds it set
\* returns its paths without asking the peer; calls that race on an empty
\* cache may each ask the peer, and all of them, like every later call,
\* return the paths of the one value that was stored first.
C30_BaseDirsCachedOnce ==
    /\ [](PATHS.some <=> \E w \in Writers : StepOk(w, "resolve_path"))
    /\ [](\A w \in Writers :
            /\ StepFailed(w, "resolve_path") =>
                  /\ wpc[w] = "returned"
                  /\ wresult[w] = Err(FromPluginInvokeError("getPrivateBaseDirAbsolutePaths failed"))
            /\ ResolvedPath(w) =>
                  /\ PATHS.some
                  /\ tmp_file_path[w] =
                        resolve_path_with(PATHS.value, "Cache", WriteTmpRelativePath(
                            CHOOSE n \in 0..COUNTER :
                                Decimal(n) = TmpSuffix(tmp_file_path[w])))
            /\ BaseDirQueries(w) <= 1)
    /\ [][PATHS.some => PATHS' = PATHS]_vars
    /\ [][\A w \in Writers :
            (wpc[w] = "resolve" /\ PATHS.some /\ wpc'[w] # "resolve") =>
                (reqs'[w] = reqs[w] /\ wpc'[w] = "create_dir_all")]_vars
    /\ [][\A w \in Writers :
            (wpc[w] = "query_paths" /\ wpc'[w] = "returned") => PATHS' = PATHS]_vars

\* Two calls raced on the empty cache and each asked the peer; both have the
\* paths of the one value stored.
C30_Witness ==
    /\ PATHS = Some(OtherBaseDirs)
    /\ \A w \in Writers :
          /\ StepOk(w, "resolve_path")
          /\ BaseDirQueries(w) = 1
          /\ tmp_file_path[w][1] = OtherBaseDirs.cache[1]

====
